---- MODULE Spec2Model ----
(***************************************************************************)
(* Model of the usage-bridge extraction layer                              *)
(* (src/apps/usage-bridge/claude_monitor_wrapper.py, models.py).           *)
(*                                                                         *)
(* Python values are tagged records (field k is the type tag).  A str is   *)
(* a sequence of symbols: single characters for timestamps, and "." or an  *)
(* identifier chunk for attribute paths, so that split('.') and            *)
(* replace('Z', ...) are computed on the string itself.  An upstream       *)
(* object is a map from attribute names to slots; a slot either holds a    *)
(* value or raises when it is read (a property that raises).  A call       *)
(* returns a result record: Ret(v) or Raise(type, msg).                    *)
(***************************************************************************)
EXTENDS Integers, Sequences, FiniteSets, TLC

VARIABLES
    op,            \* the operation in progress or just run ("none" when idle)
    inp,           \* its arguments
    out,           \* its result record (Ret / Raise)
    calls,         \* the upstream calls it made, in order
    clock,         \* the wall clock, in seconds since the epoch
    phase,         \* "unbound" before ClaudeMonitorWrapper.__init__ ran, then "bound"
    is_available,  \* ClaudeMonitorWrapper._is_available
    modules,       \* the keys of ClaudeMonitorWrapper._modules
    classes,       \* the keys of ClaudeMonitorWrapper._classes
    functions,     \* the keys of ClaudeMonitorWrapper._functions
    argv,          \* sys.argv
    threads,       \* concurrent callers: where each one is in create_settings
    config_store   \* main.py: the stored configuration of the HTTP service, or None

vars == <<op, inp, out, calls, clock, phase, is_available, modules, classes,
          functions, argv, threads, config_store>>

----------------------------------------------------------------------------
(* Python values *)

PyNone == [k |-> "None"]
PyBool(b) == [k |-> "bool", b |-> b]
PyInt(i) == [k |-> "int", i |-> i]
\* a float: c is "fin" (the integral value i), "nan" or "inf"
PyFloat(c, i) == [k |-> "float", c |-> c, i |-> i]
PyStr(s) == [k |-> "str", s |-> s]
PyList(items) == [k |-> "list", items |-> items]
PyDict(d) == [k |-> "dict", d |-> d]
PyObj(attrs) == [k |-> "obj", attrs |-> attrs]

Val(v) == [st |-> "val", v |-> v]
Boom(t, m) == [st |-> "raise", exc |-> [type |-> t, msg |-> m]]

Ret(v) == [raised |-> FALSE, v |-> v]
Raise(t, m) == [raised |-> TRUE, exc |-> [type |-> t, msg |-> m]]

\* bool(value): None, False, 0, 0.0, "", [] and {} are falsy
Truthy(x) ==
    CASE x.k = "None" -> FALSE
      [] x.k = "bool" -> x.b
      [] x.k = "int" -> x.i # 0
      [] x.k = "float" -> ~(x.c = "fin" /\ x.i = 0)
      [] x.k = "str" -> Len(x.s) > 0
      [] x.k = "list" -> Len(x.items) > 0
      [] x.k = "dict" -> DOMAIN x.d # {}
      [] OTHER -> TRUE

\* a or b
PyOr(a, b) == IF Truthy(a) THEN a ELSE b

----------------------------------------------------------------------------
(* getattr *)

\* F applied to x: names a value that the rest of an expression uses
With(x, F(_)) == F(x)

\* getattr(obj, name): AttributeError when the attribute is missing
getattr2(obj, name) ==
    IF obj.k = "obj" /\ name \in DOMAIN obj.attrs
    THEN IF obj.attrs[name].st = "val" THEN Ret(obj.attrs[name].v)
         ELSE [raised |-> TRUE, exc |-> obj.attrs[name].exc]
    ELSE Raise("AttributeError", "no attribute")

\* getattr(obj, name, default): only AttributeError is turned into default
getattr3(obj, name, default) ==
    With(getattr2(obj, name),
         LAMBDA r : IF r.raised /\ r.exc.type = "AttributeError" THEN Ret(default) ELSE r)

\* str.split('.') on a sequence of symbols
RECURSIVE SplitFrom(_, _, _)
SplitFrom(s, i, cur) ==
    IF i > Len(s) THEN <<cur>>
    ELSE IF s[i] = "." THEN <<cur>> \o SplitFrom(s, i + 1, <<>>)
    ELSE SplitFrom(s, i + 1, Append(cur, s[i]))

Split(s) == SplitFrom(s, 1, <<>>)

\* for attr in attr_path.split('.'): value = getattr(value, attr)
RECURSIVE WalkFrom(_, _, _)
WalkFrom(value, segs, i) ==
    IF i > Len(segs) THEN Ret(value)
    ELSE With(getattr2(value, segs[i]),
              LAMBDA r : IF r.raised THEN r ELSE WalkFrom(r.v, segs, i + 1))

\* faulty variant: attr is split on '.' and walked segment by segment
safe_getattr_walks(obj, attr, default) ==
    With(WalkFrom(obj, Split(attr), 1),
         LAMBDA r : IF r.raised THEN Ret(default) ELSE r)

\* try: return getattr(obj, attr, default) except Exception: return default
safe_getattr(obj, attr, default) ==
    With(getattr3(obj, attr, default),
         LAMBDA r : IF r.raised THEN Ret(default) ELSE r)

\* except (AttributeError, TypeError)
CaughtByExtract(exc) == exc.type \in {"AttributeError", "TypeError"}

\* result[key] = v
Put(d, key, v) == [x \in (DOMAIN d) \cup {key} |-> IF x = key THEN v ELSE d[x]]

\* property_map is an ordered sequence of <<key, attr_path>>; acc is result
RECURSIVE ExtractFrom(_, _, _, _)
ExtractFrom(obj, pm, i, acc) ==
    IF i > Len(pm) THEN Ret(acc)
    ELSE With(WalkFrom(obj, Split(pm[i][2]), 1),
              LAMBDA r :
                IF ~r.raised THEN ExtractFrom(obj, pm, i + 1, Put(acc, pm[i][1], r.v))
                ELSE IF CaughtByExtract(r.exc)
                THEN ExtractFrom(obj, pm, i + 1, Put(acc, pm[i][1], PyNone))
                ELSE r)

extract_properties(obj, property_map) == ExtractFrom(obj, property_map, 1, <<>>)

----------------------------------------------------------------------------
(* datetime *)

PyDatetime(Y, M, D, h, mi, s, aware, off) ==
    [k |-> "datetime", Y |-> Y, M |-> M, D |-> D, h |-> h, mi |-> mi, s |-> s,
     aware |-> aware, off |-> off]

IsLeap(y) == (y % 4 = 0) /\ ((y % 100 # 0) \/ (y % 400 = 0))

DaysInMonth(y, m) ==
    CASE m \in {1, 3, 5, 7, 8, 10, 12} -> 31
      [] m \in {4, 6, 9, 11} -> 30
      [] OTHER -> IF IsLeap(y) THEN 29 ELSE 28

\* the civil date of a count of days since 1970-01-01: era, day of era,
\* year of era, day of year and month index in turn
CivilFromDays(days) ==
    With(days + 719468, LAMBDA z :
    With(z \div 146097, LAMBDA era :
    With(z - era * 146097, LAMBDA doe :
    With((doe - doe \div 1460 + doe \div 36524 - doe \div 146096) \div 365, LAMBDA yoe :
    With(doe - (365 * yoe + yoe \div 4 - yoe \div 100), LAMBDA doy :
    With((5 * doy + 2) \div 153, LAMBDA mp :
        [Y |-> yoe + era * 400 + (IF mp < 10 THEN 0 ELSE 1),
         M |-> IF mp < 10 THEN mp + 3 ELSE mp - 9,
         D |-> doy - (153 * mp + 2) \div 5 + 1]))))))

\* datetime.fromtimestamp(ts, tz=timezone.utc) for a whole number of seconds
FromEpoch(ts, aware) ==
    With(CivilFromDays(ts \div 86400), LAMBDA date :
        PyDatetime(date.Y, date.M, date.D, (ts % 86400) \div 3600,
                   ((ts % 86400) % 3600) \div 60, (ts % 86400) % 60, aware, 0))

\* datetime.utcnow(): the clock reading as a naive datetime
utcnow(t) == FromEpoch(t, FALSE)

RECURSIVE DaysBeforeMonth(_, _)
DaysBeforeMonth(y, m) ==
    IF m <= 1 THEN 0 ELSE DaysBeforeMonth(y, m - 1) + DaysInMonth(y, m - 1)

\* proleptic Gregorian ordinal of a date (0001-01-01 is day 1)
Ordinal(y, m, d) ==
    365 * (y - 1) + (y - 1) \div 4 - (y - 1) \div 100 + (y - 1) \div 400
    + DaysBeforeMonth(y, m) + d

\* datetime.timestamp() of an aware datetime (a naive one read as UTC)
ToEpoch(dt) ==
    (Ordinal(dt.Y, dt.M, dt.D) - 719163) * 86400
    + dt.h * 3600 + dt.mi * 60 + dt.s - dt.off * 60

\* datetime.__eq__: aware values compare as instants, naive ones field by
\* field, and an aware value never equals a naive one
DatetimeEq(a, b) ==
    /\ a.k = "datetime" /\ b.k = "datetime"
    /\ a.aware = b.aware
    /\ IF a.aware THEN ToEpoch(a) = ToEpoch(b) ELSE a = b

IsDigit(c) == c \in {"0", "1", "2", "3", "4", "5", "6", "7", "8", "9"}

DigitVal(c) ==
    CASE c = "0" -> 0 [] c = "1" -> 1 [] c = "2" -> 2 [] c = "3" -> 3
      [] c = "4" -> 4 [] c = "5" -> 5 [] c = "6" -> 6 [] c = "7" -> 7
      [] c = "8" -> 8 [] c = "9" -> 9

AllDigits(s) == \A i \in 1..Len(s) : IsDigit(s[i])

RECURSIVE NumFrom(_, _, _)
NumFrom(s, i, acc) ==
    IF i > Len(s) THEN acc ELSE NumFrom(s, i + 1, acc * 10 + DigitVal(s[i]))

Num(s) == NumFrom(s, 1, 0)

\* str.replace(old, new) for a one-symbol old
RECURSIVE ReplaceFrom(_, _, _, _)
ReplaceFrom(s, i, old, new) ==
    IF i > Len(s) THEN <<>>
    ELSE (IF s[i] = old THEN new ELSE <<s[i]>>) \o ReplaceFrom(s, i + 1, old, new)

Replace(s, old, new) == ReplaceFrom(s, 1, old, new)

Sub(s, a, b) == IF a > b \/ b > Len(s) THEN <<>> ELSE SubSeq(s, a, b)

NoTime == [ok |-> FALSE, h |-> 0, mi |-> 0, s |-> 0]

\* two digits at position a of t
Two(t, a) == Len(t) > a /\ IsDigit(t[a]) /\ IsDigit(t[a + 1])
TwoVal(t, a) == DigitVal(t[a]) * 10 + DigitVal(t[a + 1])

TimeInRange(r) == IF r.h < 24 /\ r.mi < 60 /\ r.s < 60 THEN r ELSE NoTime

\* the time part of an ISO string: HH, HH:MM or HH:MM:SS
ParseTime(t) ==
    CASE Len(t) = 2 /\ Two(t, 1) ->
           TimeInRange([ok |-> TRUE, h |-> TwoVal(t, 1), mi |-> 0, s |-> 0])
      [] Len(t) = 5 /\ Two(t, 1) /\ t[3] = ":" /\ Two(t, 4) ->
           TimeInRange([ok |-> TRUE, h |-> TwoVal(t, 1), mi |-> TwoVal(t, 4), s |-> 0])
      [] Len(t) = 8 /\ Two(t, 1) /\ t[3] = ":" /\ Two(t, 4) /\ t[6] = ":" /\ Two(t, 7) ->
           TimeInRange([ok |-> TRUE, h |-> TwoVal(t, 1), mi |-> TwoVal(t, 4),
                        s |-> TwoVal(t, 7)])
      [] OTHER -> NoTime

\* the position of the first "+" or "-" of t, or 0
RECURSIVE SignPos(_, _)
SignPos(t, i) ==
    IF i > Len(t) THEN 0
    ELSE IF t[i] \in {"+", "-"} THEN i ELSE SignPos(t, i + 1)

BadIso == Raise("ValueError", "Invalid isoformat string")

\* the UTC offset +HH:MM or -HH:MM after the time tm
IsoZone(date, tm, sign, tz) ==
    IF Len(tz) = 5 /\ ParseTime(tz).ok
    THEN Ret(PyDatetime(date.Y, date.M, date.D, tm.h, tm.mi, tm.s, TRUE,
                        (IF sign = "-" THEN -1 ELSE 1) * (TwoVal(tz, 1) * 60 + TwoVal(tz, 4))))
    ELSE BadIso

\* the time t after the separator of the date; sp is where its offset
\* starts, or 0
IsoTime(date, t, sp) ==
    With(ParseTime(IF sp = 0 THEN t ELSE Sub(t, 1, sp - 1)), LAMBDA tm :
        IF ~tm.ok THEN BadIso
        ELSE IF sp = 0
        THEN Ret(PyDatetime(date.Y, date.M, date.D, tm.h, tm.mi, tm.s, FALSE, 0))
        ELSE IsoZone(date, tm, t[sp], Sub(t, sp + 1, Len(t))))

\* datetime.fromisoformat(s): YYYY-MM-DD[*HH[:MM[:SS]][+HH:MM]]
\* (fractional seconds are not modelled)
fromisoformat(s) ==
    IF ~(/\ Len(s) >= 10
         /\ AllDigits(Sub(s, 1, 4)) /\ s[5] = "-"
         /\ AllDigits(Sub(s, 6, 7)) /\ s[8] = "-"
         /\ AllDigits(Sub(s, 9, 10)))
    THEN BadIso
    ELSE With([Y |-> Num(Sub(s, 1, 4)), M |-> Num(Sub(s, 6, 7)), D |-> Num(Sub(s, 9, 10))],
              LAMBDA date :
                IF ~(/\ date.Y >= 1 /\ date.M \in 1..12
                     /\ date.D >= 1 /\ date.D <= DaysInMonth(date.Y, date.M))
                THEN BadIso
                ELSE IF Len(s) = 10
                THEN Ret(PyDatetime(date.Y, date.M, date.D, 0, 0, 0, FALSE, 0))
                ELSE IF Len(s) = 11 THEN BadIso
                ELSE IsoTime(date, Sub(s, 12, Len(s)), SignPos(Sub(s, 12, Len(s)), 1)))

\* datetime.fromtimestamp(x, tz=timezone.utc) for an int, bool or float
fromtimestamp(x) ==
    CASE x.k = "bool" -> Ret(FromEpoch(IF x.b THEN 1 ELSE 0, TRUE))
      [] x.k = "int" -> Ret(FromEpoch(x.i, TRUE))
      [] x.k = "float" /\ x.c = "fin" -> Ret(FromEpoch(x.i, TRUE))
      [] x.k = "float" /\ x.c = "nan" ->
           Raise("ValueError", "cannot convert float NaN to integer")
      [] OTHER -> Raise("OverflowError", "cannot convert float infinity to integer")

\* try: fromisoformat(...) except ValueError: return None
IsoOrNone(r) == IF r.raised /\ r.exc.type = "ValueError" THEN Ret(PyNone) ELSE r

UtcDesignator == <<"+", "0", "0", ":", "0", "0">>

\* faulty variant: a string is parsed without replacing the Z designator
convert_datetime_noZ(dt) ==
    CASE dt.k = "None" -> Ret(PyNone)
      [] dt.k = "datetime" -> Ret(dt)
      [] dt.k \in {"bool", "int", "float"} -> fromtimestamp(dt)
      [] dt.k = "str" -> IsoOrNone(fromisoformat(dt.s))
      [] OTHER -> Ret(PyNone)

convert_datetime(dt) ==
    CASE dt.k = "None" -> Ret(PyNone)
      [] dt.k = "datetime" -> Ret(dt)
      [] dt.k \in {"bool", "int", "float"} -> fromtimestamp(dt)
      [] dt.k = "str" -> IsoOrNone(fromisoformat(Replace(dt.s, "Z", UtcDesignator)))
      [] OTHER -> Ret(PyNone)

----------------------------------------------------------------------------
(* models.py: pydantic validation of the output schema *)

ValidationError(field) == Raise("ValidationError", field)

\* an int field: an int, a bool, an integral float or a string of digits
CoerceInt(v, field) ==
    CASE v.k = "int" -> Ret(v.i)
      [] v.k = "bool" -> Ret(IF v.b THEN 1 ELSE 0)
      [] v.k = "float" /\ v.c = "fin" -> Ret(v.i)
      [] v.k = "str" /\ Len(v.s) > 0 /\ AllDigits(v.s) -> Ret(Num(v.s))
      [] OTHER -> ValidationError(field)

\* a float field: a float (nan and inf included), an int, a bool or digits
CoerceFloat(v, field) ==
    CASE v.k = "float" -> Ret(v)
      [] v.k = "int" -> Ret(PyFloat("fin", v.i))
      [] v.k = "bool" -> Ret(PyFloat("fin", IF v.b THEN 1 ELSE 0))
      [] v.k = "str" /\ Len(v.s) > 0 /\ AllDigits(v.s) -> Ret(PyFloat("fin", Num(v.s)))
      [] OTHER -> ValidationError(field)

\* a str field accepts a str only
CoerceStr(v, field) ==
    IF v.k = "str" THEN Ret(v.s) ELSE ValidationError(field)

CoerceBool(v, field) ==
    CASE v.k = "bool" -> Ret(v.b)
      [] v.k = "int" /\ v.i \in {0, 1} -> Ret(v.i = 1)
      [] v.k = "float" /\ v.c = "fin" /\ v.i \in {0, 1} -> Ret(v.i = 1)
      [] v.k = "str" /\ v.s \in {<<"1">>, <<"t">>, <<"y">>, <<"o", "n">>, <<"y", "e", "s">>,
                                  <<"t", "r", "u", "e">>} -> Ret(TRUE)
      [] v.k = "str" /\ v.s \in {<<"0">>, <<"f">>, <<"n">>, <<"n", "o">>, <<"o", "f", "f">>,
                                  <<"f", "a", "l", "s", "e">>} -> Ret(FALSE)
      [] OTHER -> ValidationError(field)

\* List[str]
CoerceStrList(v, field) ==
    IF v.k = "list" /\ \A i \in 1..Len(v.items) : v.items[i].k = "str"
    THEN Ret([i \in 1..Len(v.items) |-> v.items[i].s])
    ELSE ValidationError(field)

\* Dict[str, Any]: the keys of a modelled dict are strings
CoerceDict(v, field) ==
    IF v.k = "dict" THEN Ret(v.d) ELSE ValidationError(field)

\* the first failure among a sequence of results, or Ret(ok)
RECURSIVE FirstRaise(_, _, _)
FirstRaise(rs, i, ok) ==
    IF i > Len(rs) THEN Ret(ok)
    ELSE IF rs[i].raised THEN rs[i] ELSE FirstRaise(rs, i + 1, ok)

AnyRaised(rs) == \E i \in 1..Len(rs) : rs[i].raised

\* the model built from validated fields, or the first validation error
Validated(fields, Make(_)) ==
    IF AnyRaised(fields) THEN FirstRaise(fields, 1, PyNone) ELSE Ret(Make(fields))

\* TokenCounts(input_tokens=..., ...)
TokenCounts(a, b, c, d) ==
    Validated(<<CoerceInt(a, "input_tokens"), CoerceInt(b, "output_tokens"),
                CoerceInt(c, "cache_creation_tokens"), CoerceInt(d, "cache_read_tokens")>>,
              LAMBDA f : [k |-> "TokenCounts", input_tokens |-> f[1].v,
                          output_tokens |-> f[2].v, cache_creation_tokens |-> f[3].v,
                          cache_read_tokens |-> f[4].v])

\* TokenCounts(): every counter 0
TokenCountsDefault ==
    [k |-> "TokenCounts", input_tokens |-> 0, output_tokens |-> 0,
     cache_creation_tokens |-> 0, cache_read_tokens |-> 0]

\* faulty variant: the cache counters are left out of the total
total_tokens_without_cache(tc) == tc.input_tokens + tc.output_tokens

\* the total_tokens property
total_tokens(tc) ==
    tc.input_tokens + tc.output_tokens + tc.cache_creation_tokens + tc.cache_read_tokens

\* BurnRate(tokens_per_minute=..., cost_per_hour=...)
BurnRate(tpm, cph) ==
    Validated(<<CoerceFloat(tpm, "tokens_per_minute"), CoerceFloat(cph, "cost_per_hour")>>,
              LAMBDA f : [k |-> "BurnRate", tokens_per_minute |-> f[1].v,
                          cost_per_hour |-> f[2].v])

Zero == PyFloat("fin", 0)

\* SessionBlock(...) with every field given; token_counts is a TokenCounts,
\* burn_rate a BurnRate or None, the timestamps datetimes
SessionBlock(id, start_time, end_time, is_active, token_counts, cost_usd, burn_rate, models, sent_messages_count, per_model_stats) ==
    Validated(<<CoerceStr(id, "id"), CoerceBool(is_active, "is_active"),
                CoerceFloat(cost_usd, "cost_usd"), CoerceStrList(models, "models"),
                CoerceInt(sent_messages_count, "sent_messages_count"),
                CoerceDict(per_model_stats, "per_model_stats")>>,
              LAMBDA f : [k |-> "SessionBlock", id |-> f[1].v, start_time |-> start_time,
                          end_time |-> end_time, is_active |-> f[2].v,
                          token_counts |-> token_counts, cost_usd |-> f[3].v,
                          burn_rate |-> burn_rate, models |-> f[4].v,
                          sent_messages_count |-> f[5].v, per_model_stats |-> f[6].v])

\* SessionBlock(id=..., start_time=..., end_time=...): the other fields default
SessionBlockMinimal(id, start_time, end_time) ==
    SessionBlock(id, start_time, end_time, PyBool(FALSE), TokenCountsDefault, Zero,
                 PyNone, PyList(<<>>), PyInt(0), PyDict(<<>>))

\* SessionBlock.total_tokens: the total of its token_counts
session_total_tokens(sb) == total_tokens(sb.token_counts)

----------------------------------------------------------------------------
(* ClaudeMonitorWrapper.convert_session_block *)

\* attribute names and string literals of the source
N(name) == <<name>>
unknown == PyStr(<<"unknown">>)
error == PyStr(<<"error">>)

DigitChar(d) ==
    CASE d = 0 -> "0" [] d = 1 -> "1" [] d = 2 -> "2" [] d = 3 -> "3" [] d = 4 -> "4"
      [] d = 5 -> "5" [] d = 6 -> "6" [] d = 7 -> "7" [] d = 8 -> "8" [] OTHER -> "9"

RECURSIVE Digits(_)
Digits(n) ==
    IF n < 10 THEN <<DigitChar(n)>> ELSE Append(Digits(n \div 10), DigitChar(n % 10))

\* str(value): a str is itself; other values print their repr
str(v) ==
    CASE v.k = "str" -> v
      [] v.k = "None" -> PyStr(<<"None">>)
      [] v.k = "int" -> PyStr(IF v.i < 0 THEN <<"-">> \o Digits(-v.i) ELSE Digits(v.i))
      [] v.k = "bool" -> PyStr(IF v.b THEN <<"True">> ELSE <<"False">>)
      [] OTHER -> PyStr(<<"<", v.k, ">">>)

\* dict.get(key, default): default only when the key is not in the dict
DictGet(d, key, default) == IF key \in DOMAIN d THEN d[key] ELSE default

BasicProps == << <<"id", N("id")>>, <<"is_active", N("is_active")>>,
                 <<"cost_usd", N("cost_usd")>>,
                 <<"sent_messages_count", N("sent_messages_count")>> >>

\* faulty variant: the fallback uses the identifier of the absent-session path
FallbackIdUnknown(monitor_session) == Ret(unknown)

\* str(getattr(monitor_session, 'id', 'error'))
FallbackId(monitor_session) ==
    With(getattr3(monitor_session, N("id"), error),
         LAMBDA g : IF g.raised THEN g ELSE Ret(str(g.v)))

\* the except branch: SessionBlock(id=str(getattr(...)), start_time=now, end_time=now)
ConvertFallback(monitor_session, rd) ==
    With(FallbackId(monitor_session),
         LAMBDA g : IF g.raised THEN g
                    ELSE SessionBlockMinimal(g.v, utcnow(rd[5]), utcnow(rd[6])))

\* TokenCounts() unless the session has a truthy token_counts
ConvertTokenCounts(mtc) ==
    IF Truthy(mtc)
    THEN TokenCounts(safe_getattr(mtc, N("input_tokens"), PyInt(0)).v,
                     safe_getattr(mtc, N("output_tokens"), PyInt(0)).v,
                     safe_getattr(mtc, N("cache_creation_tokens"), PyInt(0)).v,
                     safe_getattr(mtc, N("cache_read_tokens"), PyInt(0)).v)
    ELSE Ret(TokenCountsDefault)

\* faulty variant: a burn_rate whose sub-fields cannot be read is dropped
ConvertBurnRateDropping(mbr) ==
    IF /\ Truthy(mbr)
       /\ safe_getattr(mbr, N("tokens_per_minute"), PyNone).v # PyNone
       /\ safe_getattr(mbr, N("cost_per_hour"), PyNone).v # PyNone
    THEN BurnRate(safe_getattr(mbr, N("tokens_per_minute"), Zero).v,
                  safe_getattr(mbr, N("cost_per_hour"), Zero).v)
    ELSE Ret(PyNone)

\* None unless the session has a truthy burn_rate
ConvertBurnRate(mbr) ==
    IF Truthy(mbr)
    THEN BurnRate(safe_getattr(mbr, N("tokens_per_minute"), Zero).v,
                  safe_getattr(mbr, N("cost_per_hour"), Zero).v)
    ELSE Ret(PyNone)

\* lines 290-301, once no earlier step of the try block has raised;
\* steps holds basic_props, start_time, end_time, token_counts, burn_rate
ConvertBuild(monitor_session, rd, steps) ==
    IF AnyRaised(steps) THEN FirstRaise(steps, 1, PyNone)
    ELSE SessionBlock(DictGet(steps[1].v, "id", unknown),
                      PyOr(steps[2].v, utcnow(rd[3])),
                      PyOr(steps[3].v, utcnow(rd[4])),
                      DictGet(steps[1].v, "is_active", PyBool(FALSE)),
                      steps[4].v,
                      DictGet(steps[1].v, "cost_usd", Zero),
                      steps[5].v,
                      PyOr(safe_getattr(monitor_session, N("models"), PyList(<<>>)).v,
                           PyList(<<>>)),
                      DictGet(steps[1].v, "sent_messages_count", PyInt(0)),
                      PyOr(safe_getattr(monitor_session, N("per_model_stats"),
                                        PyDict(<<>>)).v,
                           PyDict(<<>>)))

\* the try block; rd[i] is the i-th reading of the clock
ConvertTry(monitor_session, rd) ==
    ConvertBuild(monitor_session, rd,
        <<extract_properties(monitor_session, BasicProps),
          convert_datetime(safe_getattr(monitor_session, N("start_time"), utcnow(rd[1])).v),
          convert_datetime(safe_getattr(monitor_session, N("end_time"), utcnow(rd[2])).v),
          ConvertTokenCounts(safe_getattr(monitor_session, N("token_counts"), PyNone).v),
          ConvertBurnRate(safe_getattr(monitor_session, N("burn_rate"), PyNone).v)>>)

\* faulty variant: an absent session is not returned early but converted like any other
convert_session_block_noguard(monitor_session, rd) ==
    With(ConvertTry(monitor_session, rd),
         LAMBDA r : IF r.raised THEN ConvertFallback(monitor_session, rd) ELSE r)

convert_session_block(monitor_session, rd) ==
    IF ~Truthy(monitor_session)
    THEN SessionBlockMinimal(unknown, utcnow(rd[1]), utcnow(rd[2]))
    ELSE With(ConvertTry(monitor_session, rd),
              LAMBDA r : IF r.raised THEN ConvertFallback(monitor_session, rd) ELSE r)

----------------------------------------------------------------------------
(* models.py: UsagePredictions, UsageTotals, UsageStats *)

\* UsagePredictions(...): each field a datetime or None
UsagePredictions(tokens_run_out, limit_resets_at) ==
    [k |-> "UsagePredictions", tokens_run_out |-> tokens_run_out,
     limit_resets_at |-> limit_resets_at]

\* Field(0.0, ge=0.0, le=100.0); nan fails ge and inf fails le
InRange(r, field) ==
    IF r.raised THEN r
    ELSE IF r.v.c = "fin" /\ r.v.i >= 0 /\ r.v.i <= 100 THEN r
    ELSE ValidationError(field)

Percentage(v, field) == InRange(CoerceFloat(v, field), field)

UsageTotals(cost, token, message, reset) ==
    Validated(<<Percentage(cost, "cost_percentage"), Percentage(token, "token_percentage"),
                Percentage(message, "message_percentage"),
                Percentage(reset, "time_to_reset_percentage")>>,
              LAMBDA f : [k |-> "UsageTotals", cost_percentage |-> f[1].v,
                          token_percentage |-> f[2].v, message_percentage |-> f[3].v,
                          time_to_reset_percentage |-> f[4].v])

\* UsageStats(recent_sessions=[], predictions=UsagePredictions(),
\*            burn_rate=BurnRate(0.0, 0.0), totals=UsageTotals())
EmptyStats ==
    [k |-> "UsageStats", current_session |-> PyNone, recent_sessions |-> <<>>,
     predictions |-> UsagePredictions(PyNone, PyNone),
     burn_rate |-> [k |-> "BurnRate", tokens_per_minute |-> Zero, cost_per_hour |-> Zero],
     totals |-> [k |-> "UsageTotals", cost_percentage |-> Zero, token_percentage |-> Zero,
                 message_percentage |-> Zero, time_to_reset_percentage |-> Zero]]

----------------------------------------------------------------------------
(* ClaudeMonitorWrapper: the upstream chain *)

\* _safe_import_context: what sys.argv is inside the with block
GuardedArgv(a) == <<a[1]>>

ConfigKeys == {"plan", "view", "timezone", "time_format", "theme", "refresh_rate",
               "refresh_per_second", "reset_hour"}

\* faulty variant: only the fields of the config that hold a value are passed
build_settings_kwargs_set_only(config_params) ==
    IF ~Truthy(config_params) THEN <<>>
    ELSE [x \in {y \in ConfigKeys \cup {"custom_limit_tokens"} :
                    Truthy(config_params.attrs[N(y)].v)} |->
            config_params.attrs[N(x)].v]

\* _build_settings_kwargs: a dict of the parameters for Settings(**kwargs)
build_settings_kwargs(config_params) ==
    IF ~Truthy(config_params) THEN <<>>
    ELSE [x \in (IF Truthy(config_params.attrs[N("custom_limit_tokens")].v)
                 THEN ConfigKeys \cup {"custom_limit_tokens"} ELSE ConfigKeys) |->
            config_params.attrs[N(x)].v]

NotAvailable(name) == Raise("RuntimeError", name)

\* what a call handed on: its value, or None when it raised
Made(r) == IF r.raised THEN PyNone ELSE r.v

\* faulty variant: the current data is read before the refresh
ChainCallsReadFirst(kwargs, a, up) ==
    <<[call |-> "Settings", args |-> kwargs, argv |-> GuardedArgv(a)],
      [call |-> "DataManager", settings |-> Made(up.Settings)],
      [call |-> "MonitoringOrchestrator", data_manager |-> Made(up.DataManager),
       settings |-> Made(up.Settings)],
      [call |-> "get_current_data"], [call |-> "update"]>>

\* the upstream calls of one get_usage_statistics, in order, with what
\* each constructor is given
ChainCalls(kwargs, a, up) ==
    <<[call |-> "Settings", args |-> kwargs, argv |-> GuardedArgv(a)],
      [call |-> "DataManager", settings |-> Made(up.Settings)],
      [call |-> "MonitoringOrchestrator", data_manager |-> Made(up.DataManager),
       settings |-> Made(up.Settings)],
      [call |-> "update"], [call |-> "get_current_data"]>>

Chain(r, all, n) == [r |-> r, calls |-> SubSeq(all, 1, n)]

\* create_settings, create_data_manager, create_orchestrator, update and
\* get_current_data in turn; up gives the outcome of each upstream call.
\* The result is the current data or the first exception, with the calls made.
UpstreamChain(cls, up, all) ==
    IF "Settings" \notin cls
    THEN Chain(NotAvailable("Settings class not available"), all, 0)
    ELSE IF up.Settings.raised THEN Chain(up.Settings, all, 1)
    ELSE IF "DataManager" \notin cls
    THEN Chain(NotAvailable("DataManager class not available"), all, 1)
    ELSE IF up.DataManager.raised THEN Chain(up.DataManager, all, 2)
    ELSE IF "MonitoringOrchestrator" \notin cls
    THEN Chain(NotAvailable("MonitoringOrchestrator class not available"), all, 2)
    ELSE IF up.MonitoringOrchestrator.raised THEN Chain(up.MonitoringOrchestrator, all, 3)
    ELSE IF up.update.raised THEN Chain(up.update, all, 4)
    ELSE Chain(up.get_current_data, all, 5)

----------------------------------------------------------------------------
(* ClaudeMonitorWrapper.get_usage_statistics *)

\* for session in recent_sessions: a list or a str can be iterated
Iterate(v) ==
    CASE v.k = "list" -> Ret(v.items)
      [] v.k = "str" -> Ret([i \in 1..Len(v.s) |-> PyStr(<<v.s[i]>>)])
      [] OTHER -> Raise("TypeError", "object is not iterable")

\* a step of the assembly: the stats so far, or the exception that ended it
Built(st) == [raised |-> FALSE, st |-> st]
Failed(st, exc) == [raised |-> TRUE, st |-> st, exc |-> exc]

\* the stats st with field f set to the value of r, unless r raised
SetField(st, f, r) ==
    IF r.raised THEN Failed(st, r.exc) ELSE Built([st EXCEPT ![f] = r.v])

StepCurrentSession(st, current_session, rd) ==
    IF ~Truthy(current_session) THEN Built(st)
    ELSE SetField(st, "current_session", convert_session_block(current_session, rd))

\* faulty variant: the converted sessions come out in reverse order
ConvertEachReversed(it, rd) ==
    IF it.raised THEN it
    ELSE With([i \in 1..Len(it.v) |-> convert_session_block(it.v[Len(it.v) + 1 - i], rd)],
              LAMBDA cs : IF AnyRaised(cs) THEN FirstRaise(cs, 1, PyNone)
                          ELSE Ret([i \in 1..Len(cs) |-> cs[i].v]))

\* [self.convert_session_block(session) for session in recent_sessions]
ConvertEach(it, rd) ==
    IF it.raised THEN it
    ELSE With([i \in 1..Len(it.v) |-> convert_session_block(it.v[i], rd)],
              LAMBDA cs : IF AnyRaised(cs) THEN FirstRaise(cs, 1, PyNone)
                          ELSE Ret([i \in 1..Len(cs) |-> cs[i].v]))

StepRecentSessions(st, recent_sessions, rd) ==
    IF ~Truthy(recent_sessions) THEN Built(st)
    ELSE SetField(st, "recent_sessions", ConvertEach(Iterate(recent_sessions), rd))

StepBurnRate(st, mbr) ==
    IF ~Truthy(mbr) THEN Built(st)
    ELSE SetField(st, "burn_rate",
                  BurnRate(safe_getattr(mbr, N("tokens_per_minute"), Zero).v,
                           safe_getattr(mbr, N("cost_per_hour"), Zero).v))

\* UsagePredictions(tokens_run_out=convert_datetime(...), limit_resets_at=...)
ConvertPredictions(both) ==
    IF AnyRaised(both) THEN FirstRaise(both, 1, PyNone)
    ELSE Ret(UsagePredictions(both[1].v, both[2].v))

StepPredictions(st, pd) ==
    IF ~Truthy(pd) THEN Built(st)
    ELSE SetField(st, "predictions",
                  ConvertPredictions(
                      <<convert_datetime(safe_getattr(pd, N("tokens_run_out"), PyNone).v),
                        convert_datetime(safe_getattr(pd, N("limit_resets_at"), PyNone).v)>>))

\* faulty variant: a percentage upstream does not supply counts as 100
StepTotalsFullDefault(st, td) ==
    IF ~Truthy(td) THEN Built(st)
    ELSE SetField(st, "totals",
                  UsageTotals(safe_getattr(td, N("cost_percentage"), PyFloat("fin", 100)).v,
                              safe_getattr(td, N("token_percentage"), PyFloat("fin", 100)).v,
                              safe_getattr(td, N("message_percentage"), PyFloat("fin", 100)).v,
                              safe_getattr(td, N("time_to_reset_percentage"),
                                           PyFloat("fin", 100)).v))

StepTotals(st, td) ==
    IF ~Truthy(td) THEN Built(st)
    ELSE SetField(st, "totals",
                  UsageTotals(safe_getattr(td, N("cost_percentage"), Zero).v,
                              safe_getattr(td, N("token_percentage"), Zero).v,
                              safe_getattr(td, N("message_percentage"), Zero).v,
                              safe_getattr(td, N("time_to_reset_percentage"), Zero).v))

\* the next step runs only when none before it raised
Then(s, Step(_)) == IF s.raised THEN s ELSE Step(s.st)

\* lines 337-386: the steps in order, stopping at the first exception
Assemble(cd, rd) ==
    Then(Then(Then(Then(
        StepCurrentSession(EmptyStats,
                           safe_getattr(cd, N("current_session"), PyNone).v, rd),
        LAMBDA st : StepRecentSessions(st,
                           safe_getattr(cd, N("recent_sessions"), PyList(<<>>)).v, rd)),
        LAMBDA st : StepBurnRate(st, safe_getattr(cd, N("burn_rate"), PyNone).v)),
        LAMBDA st : StepPredictions(st, safe_getattr(cd, N("predictions"), PyNone).v)),
        LAMBDA st : StepTotals(st, safe_getattr(cd, N("totals"), PyNone).v))

\* faulty variant: the handler returns whatever had been built when the step raised
StatsOnErrorPartial(partial) == partial

\* the except branch of get_usage_statistics
StatsOnError(partial) == EmptyStats

\* the try block, given the outcome ch of the upstream chain: the return
\* value, the calls made, and whether the except branch ran
StatsTry(ch, rd) ==
    IF ch.r.raised
    THEN [res |-> Ret(StatsOnError(EmptyStats)), calls |-> ch.calls, caught |-> TRUE]
    ELSE With(Assemble(ch.r.v, rd), LAMBDA asm :
            IF asm.raised
            THEN [res |-> Ret(StatsOnError(asm.st)), calls |-> ch.calls, caught |-> TRUE]
            ELSE [res |-> Ret(asm.st), calls |-> ch.calls, caught |-> FALSE])

\* faulty variant: the availability check is skipped
StatsGuardAlways(avail) == TRUE

\* if not self.is_available: return the empty stats
StatsGuard(avail) == avail

\* the result, the upstream calls made, and whether the except branch ran
get_usage_statistics(avail, cls, a, config_params, up, rd) ==
    IF ~StatsGuard(avail)
    THEN [res |-> Ret(EmptyStats), calls |-> <<>>, caught |-> FALSE]
    ELSE StatsTry(UpstreamChain(cls, up, ChainCalls(build_settings_kwargs(config_params), a, up)),
                  rd)

----------------------------------------------------------------------------
(* ClaudeMonitorWrapper.validate_configuration *)

\* a bound method of an upstream object; ret is what calling it does
Method(ret) == [k |-> "method", ret |-> ret]

\* hasattr(obj, name): only AttributeError means False
hasattr(obj, name) ==
    With(getattr2(obj, name),
         LAMBDA r : IF ~r.raised THEN Ret(TRUE)
                    ELSE IF r.exc.type = "AttributeError" THEN Ret(FALSE)
                    ELSE r)

\* obj.name(): a value that is not a method cannot be called
CallMethod(obj, name) ==
    With(getattr2(obj, name), LAMBDA r :
        IF r.raised THEN r
        ELSE IF r.v.k = "method" THEN r.v.ret
        ELSE Raise("TypeError", "object is not callable"))

CommonProps == {"plan", "view", "timezone", "theme", "refresh_rate", "custom_limit_tokens"}

\* lines 429-441: model_dump(), else dict(), else the common properties
SettingsDict(settings) ==
    With(hasattr(settings, N("model_dump")), LAMBDA h1 :
        IF h1.raised THEN h1
        ELSE IF h1.v THEN CallMethod(settings, N("model_dump"))
        ELSE With(hasattr(settings, N("dict")), LAMBDA h2 :
            IF h2.raised THEN h2
            ELSE IF h2.v THEN CallMethod(settings, N("dict"))
            ELSE Ret(PyDict([x \in CommonProps |->
                                safe_getattr(settings, N(x), PyNone).v]))))

Invalid(msg) == [valid |-> FALSE, error |-> msg]
Valid(d) == [valid |-> TRUE, settings |-> d]

\* except Exception as e: return {"valid": False, "error": str(e)}
ValidationFailed(exc) == Invalid(exc.msg)

\* the rest of the try block once create_settings returned or raised
ValidateSettings(made) ==
    IF made.raised THEN Ret(ValidationFailed(made.exc))
    ELSE With(SettingsDict(made.v),
              LAMBDA d : IF d.raised THEN Ret(ValidationFailed(d.exc)) ELSE Ret(Valid(d.v)))

validate_configuration(avail, cls, a, config_data, up) ==
    IF ~avail
    THEN [res |-> Ret(Invalid("Claude Monitor not available")), calls |-> <<>>]
    ELSE IF "Settings" \notin cls
    THEN [res |-> ValidateSettings(NotAvailable("Settings class not available")),
          calls |-> <<>>]
    ELSE [res |-> ValidateSettings(up.Settings),
          calls |-> SubSeq(ChainCalls(build_settings_kwargs(config_data), a, up), 1, 1)]

----------------------------------------------------------------------------
(* ClaudeMonitorWrapper.get_session_history *)

\* the upstream calls of one get_session_history, in order: create_settings()
\* without parameters, the data manager, then the history query
HistoryCalls(a, hours_back) ==
    <<[call |-> "Settings", args |-> <<>>, argv |-> GuardedArgv(a)],
      [call |-> "DataManager"],
      [call |-> "get_recent_sessions", hours_back |-> hours_back]>>

\* faulty variant: the constructors are called without looking the classes up
HistoryChainUnchecked(cls, up, all) ==
    IF up.Settings.raised THEN Chain(up.Settings, all, 1)
    ELSE IF up.DataManager.raised THEN Chain(up.DataManager, all, 2)
    ELSE Chain(up.get_recent_sessions, all, 3)

\* lines 408-410: the sessions the library returns, or the first exception
HistoryChain(cls, up, all) ==
    IF "Settings" \notin cls
    THEN Chain(NotAvailable("Settings class not available"), all, 0)
    ELSE IF up.Settings.raised THEN Chain(up.Settings, all, 1)
    ELSE IF "DataManager" \notin cls
    THEN Chain(NotAvailable("DataManager class not available"), all, 1)
    ELSE IF up.DataManager.raised THEN Chain(up.DataManager, all, 2)
    ELSE Chain(up.get_recent_sessions, all, 3)

\* line 412 and the except branch: the converted list, or [] when the
\* chain, the iteration or a conversion raised
HistoryTry(ch, rd) ==
    IF ch.r.raised THEN [res |-> Ret(<<>>), calls |-> ch.calls, caught |-> TRUE]
    ELSE With(ConvertEach(Iterate(ch.r.v), rd), LAMBDA cs :
            IF cs.raised THEN [res |-> Ret(<<>>), calls |-> ch.calls, caught |-> TRUE]
            ELSE [res |-> cs, calls |-> ch.calls, caught |-> FALSE])

get_session_history(avail, cls, a, hours_back, up, rd) ==
    IF ~avail THEN [res |-> Ret(<<>>), calls |-> <<>>, caught |-> FALSE]
    ELSE HistoryTry(HistoryChain(cls, up, HistoryCalls(a, hours_back)), rd)

----------------------------------------------------------------------------
(* ClaudeMonitorWrapper.get_monitor_info *)

\* the info dict: the registry as it is, and, when available, the version
\* (read from the models module) and the file path of each loaded module
get_monitor_info(avail, mods, cls, fns) ==
    [available |-> avail, modules_loaded |-> mods, classes_available |-> cls,
     functions_available |-> fns,
     has_version |-> avail /\ "models" \in mods,
     module_paths |-> IF avail THEN mods ELSE {}]

----------------------------------------------------------------------------
(* ClaudeMonitorWrapper._setup_monitor *)

ModuleNames == {"settings", "models", "data_manager", "orchestrator",
                "calculations", "plans", "pricing"}

\* class_mappings: the module each class is read from
ClassModule ==
    [Settings |-> "settings", DataManager |-> "data_manager",
     MonitoringOrchestrator |-> "orchestrator", SessionBlock |-> "models",
     UsageEntry |-> "models", TokenCounts |-> "models", BurnRate |-> "models"]

\* the order in which class_mappings is walked
ClassNames == <<"Settings", "DataManager", "MonitoringOrchestrator", "SessionBlock",
                "UsageEntry", "TokenCounts", "BurnRate">>

\* function_mappings
FunctionModule == [normalize_model_name |-> "models"]

FunctionNames == <<"normalize_model_name">>

\* the loop of _extract_classes and _extract_functions: look[n] is what
\* getattr(module, n) does: "ok", "missing" (AttributeError, caught and
\* skipped) or "raises" (any other exception, which leaves the loop)
RECURSIVE ExtractLoop(_, _, _, _, _, _)
ExtractLoop(names, home, mods, look, i, acc) ==
    IF i > Len(names) THEN [bound |-> acc, raised |-> FALSE]
    ELSE IF home[names[i]] \notin mods \/ look[names[i]] = "missing"
    THEN ExtractLoop(names, home, mods, look, i + 1, acc)
    ELSE IF look[names[i]] = "raises" THEN [bound |-> acc, raised |-> TRUE]
    ELSE ExtractLoop(names, home, mods, look, i + 1, acc \cup {names[i]})

extract_classes(mods, look) == ExtractLoop(ClassNames, ClassModule, mods, look, 1, {})

extract_functions(mods, look) ==
    ExtractLoop(FunctionNames, FunctionModule, mods, look, 1, {})

\* config.py: the installation root.  A path is a name; valid is the set of
\* paths under which src/claude_monitor exists
NoPath == "None"

\* _detect_claude_monitor_path: the path relative to the component, then
\* possible_paths in their order
Candidates == <<"relative", "home", "opt", "usr_local">>

RECURSIVE FirstValid(_, _, _)
FirstValid(paths, valid, i) ==
    IF i > Len(paths) THEN NoPath
    ELSE IF paths[i] \in valid THEN paths[i]
    ELSE FirstValid(paths, valid, i + 1)

detect_claude_monitor_path(valid) == FirstValid(Candidates, valid, 1)

\* faulty variant: a configured path that is no installation falls back to
\* the detection
claude_monitor_path_searched(configured, valid) ==
    IF configured # NoPath /\ configured \in valid THEN configured
    ELSE detect_claude_monitor_path(valid)

\* BridgeConfig.__init__: claude_monitor_path after construction
claude_monitor_path(configured, valid) ==
    IF configured = NoPath THEN detect_claude_monitor_path(valid) ELSE configured

is_claude_monitor_available(path, valid) == path # NoPath /\ path \in valid

\* _safe_import_context: self-contained save, replace, restore of sys.argv.
\* faulty variant: the saved argv is put back only when the block succeeded
RestoreArgvOnSuccess(original_argv, inside, raised) ==
    IF raised THEN inside ELSE original_argv

\* finally: sys.argv = original_argv
RestoreArgv(original_argv, inside, raised) == original_argv

\* modules_to_load, in the order the loop walks it
modules_to_load == <<"settings", "models", "data_manager", "orchestrator",
                     "calculations", "plans", "pricing">>

\* faulty variant: the first failed import ends the loop
AfterLoadErrorAbort(i, n) == n + 1

\* except ImportError / except Exception: a warning, then the next module
AfterLoadError(i, n) == i + 1

\* one pass of the loop of lines 130-139 for module name: the import runs
\* inside _safe_import_context; outcome is "ok", "ImportError" or "Exception"
LoadModule(acc, name, outcome) ==
    [modules |-> IF outcome = "ok" THEN acc.modules \cup {name} ELSE acc.modules,
     calls |-> Append(acc.calls, [call |-> "import_module", name |-> name,
                                  argv |-> GuardedArgv(acc.argv)]),
     argv |-> RestoreArgv(acc.argv, GuardedArgv(acc.argv), outcome # "ok")]

RECURSIVE LoadLoop(_, _, _, _)
LoadLoop(names, load, i, acc) ==
    IF i > Len(names) THEN acc
    ELSE LoadLoop(names, load,
                  IF load[names[i]] = "ok" THEN i + 1
                  ELSE AfterLoadError(i, Len(names)),
                  LoadModule(acc, names[i], load[names[i]]))

\* faulty variant: the flag only counts the modules
AvailableIfLoaded(n, raised) == n > 0

\* line 146, and line 157 when _extract_classes or _extract_functions raised
Available(n, raised) == ~raised /\ n > 0

\* the rest of _setup_monitor once the modules are loaded (lines 141-157):
\* the classes, then the functions unless the classes raised, then
\* _is_available; the outer except leaves what was bound
BindLoaded(root, ld, cs, fs) ==
    [root |-> root, modules |-> ld.modules, classes |-> cs.bound,
     functions |-> IF cs.raised THEN {} ELSE fs.bound,
     is_available |-> Available(Cardinality(ld.modules), cs.raised \/ fs.raised),
     calls |-> ld.calls, argv |-> ld.argv]

\* _setup_monitor under the configuration config.py built: configured is
\* the path given to BridgeConfig (NoPath when none), load[m] the outcome of
\* importing module m, clook and flook what reading each class and function
\* attribute does, a the sys.argv of the process
setup_monitor(configured, valid, load, clook, flook, a) ==
    With(claude_monitor_path(configured, valid), LAMBDA root :
        IF ~is_claude_monitor_available(root, valid)
        THEN [root |-> root, modules |-> {}, classes |-> {}, functions |-> {},
              is_available |-> FALSE, calls |-> <<>>, argv |-> a]
        ELSE With(LoadLoop(modules_to_load, load, 1,
                           [modules |-> {}, calls |-> <<>>, argv |-> a]),
                  LAMBDA ld : BindLoaded(root, ld, extract_classes(ld.modules, clook),
                                         extract_functions(ld.modules, flook))))

\* create_settings run under _safe_import_context: sys.argv once the call
\* is over; made says whether Settings(**kwargs) was reached
SettingsArgv(a, made, raised) ==
    IF made THEN RestoreArgv(a, GuardedArgv(a), raised) ELSE a

----------------------------------------------------------------------------
(* Bounds and the inputs drawn within them *)

\* the clock at the start, and how far it may advance during one call
ClockBase == 1704200000
MaxTick == 1
\* how many upstream sessions a recent_sessions list holds at most
MaxRecent == 2
NThreads == 2

\* an object from a set of <<name, slot>> pairs
MkObj(pairs) ==
    PyObj([n \in {p[1] : p \in pairs} |-> (CHOOSE p \in pairs : p[1] = n)[2]])

Chars(cs) == PyStr(cs)
IsoZ == Chars(<<"2", "0", "2", "4", "-", "0", "1", "-", "0", "1", "T",
                "1", "2", ":", "0", "0", ":", "0", "0", "Z">>)
IsoOffset == Chars(<<"2", "0", "2", "4", "-", "0", "1", "-", "0", "1", "T",
                     "1", "4", ":", "0", "0", ":", "0", "0", "+", "0", "2", ":", "0", "0">>)
IsoNaive == Chars(<<"2", "0", "2", "4", "-", "0", "2", "-", "2", "9", "T",
                    "2", "3", ":", "5", "9">>)
IsoDateOnly == Chars(<<"2", "0", "2", "3", "-", "1", "2", "-", "3", "1">>)
IsoBadDay == Chars(<<"2", "0", "2", "3", "-", "0", "2", "-", "2", "9">>)
IsoBadHour == Chars(<<"2", "0", "2", "4", "-", "0", "1", "-", "0", "1", "T",
                      "2", "4", ":", "0", "0", ":", "0", "0", "Z">>)
NotADate == Chars(<<"n", "o", "t", "-", "a", "-", "d", "a", "t", "e">>)

ADatetime == PyDatetime(2023, 11, 14, 22, 13, 20, FALSE, 0)

\* values handed to convert_datetime
DatetimeInputs ==
    {PyNone, ADatetime, PyDatetime(2024, 1, 1, 12, 0, 0, TRUE, 0),
     PyInt(1704110400), PyInt(1700000000), PyInt(0), PyInt(-1), PyInt(951782400),
     PyInt(2147483647), PyBool(TRUE),
     PyFloat("fin", 1704110400), PyFloat("nan", 0), PyFloat("inf", 0),
     IsoZ, IsoOffset, IsoNaive, IsoDateOnly, IsoBadDay, IsoBadHour, NotADate,
     Chars(<<>>), Chars(<<"Z">>),
     PyList(<<>>), PyDict(<<>>), PyObj(<<>>)}

\* objects handed to safe_getattr and extract_properties
Leaf == MkObj({<<N("y"), Val(PyInt(5))>>})
ResolveObjs ==
    {PyNone, PyInt(3), PyObj(<<>>),
     MkObj({<<N("x"), Val(Leaf)>>, <<N("z"), Val(PyInt(7))>>}),
     MkObj({<<N("x"), Val(PyObj(<<>>))>>, <<N("z"), Val(PyInt(7))>>}),
     MkObj({<<N("x"), Val(PyNone)>>, <<N("z"), Val(PyNone)>>}),
     MkObj({<<N("x"), Boom("RuntimeError", "boom")>>, <<N("z"), Val(PyInt(7))>>}),
     MkObj({<<N("x"), Boom("AttributeError", "inner")>>, <<N("z"), Val(PyInt(7))>>}),
     MkObj({<<N("x"), Val(Leaf)>>, <<N("z"), Boom("TypeError", "bad")>>}),
     MkObj({<<N("x"), Val(MkObj({<<N("y"), Boom("ValueError", "")>>}))>>,
            <<N("z"), Val(PyInt(7))>>}),
     MkObj({<<N("x"), Val(Leaf)>>, <<<<"x", ".", "y">>, Val(PyInt(9))>>})}

ResolvePaths ==
    {<<"x">>, <<"z">>, <<"w">>, <<"x", ".", "y">>, <<"x", ".", "w">>,
     <<"z", ".", "y">>, <<>>, <<"x", ".">>}

ResolveDefaults == {PyNone, PyInt(0), PyStr(<<"default">>)}

PropertyMaps ==
    {<<>>,
     << <<"a", <<"x", ".", "y">> >>, <<"b", <<"z">> >> >>,
     << <<"b", <<"z">> >>, <<"a", <<"x", ".", "y">> >> >>,
     << <<"missing", <<"nonexistent", ".", "nested", ".", "path">> >>,
        <<"invalid", <<"bad", ".", "attribute">> >> >>,
     << <<"a", <<"x">> >>, <<"b", <<"w">> >>, <<"c", <<"z">> >> >>}

----------------------------------------------------------------------------
(* upstream session objects *)

TokenObj(a, b, c, d) ==
    MkObj({<<N("input_tokens"), Val(a)>>, <<N("output_tokens"), Val(b)>>,
           <<N("cache_creation_tokens"), Val(c)>>, <<N("cache_read_tokens"), Val(d)>>})

BurnObj(a, b) ==
    MkObj({<<N("tokens_per_minute"), Val(a)>>, <<N("cost_per_hour"), Val(b)>>})

\* a burn rate whose sub-fields cannot be read
BurnUnreadable ==
    MkObj({<<N("tokens_per_minute"), Boom("RuntimeError", "boom")>>,
           <<N("cost_per_hour"), Boom("RuntimeError", "boom")>>})

None1 == {{}}
IdChoices ==
    None1 \cup {{<<N("id"), sl>>} :
        sl \in {Val(PyStr(<<"s1">>)), Val(PyNone), Val(PyInt(7)),
                Boom("RuntimeError", "boom"), Boom("AttributeError", "inner")}}
BasicChoices ==
    None1 \cup {{<<N("is_active"), Val(PyBool(TRUE))>>, <<N("cost_usd"), Val(PyFloat("fin", 2))>>,
                 <<N("sent_messages_count"), Val(PyInt(3))>>},
                {<<N("is_active"), Val(PyBool(TRUE))>>, <<N("cost_usd"), Val(PyFloat("fin", 2))>>}}
StartChoices ==
    None1 \cup {{<<N("start_time"), Val(v)>>} :
        v \in {PyInt(1700000000), PyNone, IsoZ, PyFloat("nan", 0)}}
EndChoices == None1 \cup {{<<N("end_time"), Val(PyInt(1700003600))>>}}
TokenChoices ==
    None1 \cup {{<<N("token_counts"), Val(v)>>} :
        v \in {TokenObj(PyInt(10), PyInt(5), PyInt(0), PyInt(0)),
               MkObj({<<N("input_tokens"), Val(PyInt(10))>>}),
               TokenObj(PyNone, PyInt(5), PyInt(0), PyInt(0))}}
BurnChoices ==
    None1 \cup {{<<N("burn_rate"), Val(v)>>} :
        v \in {BurnObj(PyFloat("fin", 120), PyFloat("fin", 3)), BurnUnreadable}}
ModelChoices ==
    None1 \cup {{<<N("models"), Val(PyList(<<PyStr(<<"m1">>), PyStr(<<"m2">>)>>))>>,
                 <<N("per_model_stats"), Val(PyDict([m1 |-> PyInt(1)]))>>}}

SessionObjs ==
    {MkObj(a \cup b \cup c \cup d \cup e \cup f \cup g) :
        a \in IdChoices, b \in BasicChoices, c \in StartChoices, d \in EndChoices,
        e \in TokenChoices, f \in BurnChoices, g \in ModelChoices}

\* what convert_session_block may be handed
SessionInputs == SessionObjs \cup {PyNone, PyInt(0), PyList(<<>>), PyInt(5)}

\* the readings of the clock during one call that starts at t: six, in order
Readings(t) ==
    {rd \in [1..6 -> t..(t + MaxTick)] : \A i \in 1..5 : rd[i] <= rd[i + 1]}

NoTicks(t) == [i \in 1..6 |-> t]

----------------------------------------------------------------------------
(* upstream behaviour: the outcome of each call into the library *)

S(x) == PyStr(<<x>>)

\* a UsageConfig (models.py:86-100) as the wrapper reads it
UsageConfig(plan, custom_limit_tokens, view, reset_hour) ==
    MkObj({<<N("plan"), Val(S(plan))>>,
           <<N("custom_limit_tokens"), Val(custom_limit_tokens)>>,
           <<N("view"), Val(S(view))>>, <<N("timezone"), Val(S("auto"))>>,
           <<N("time_format"), Val(S("auto"))>>, <<N("theme"), Val(S("auto"))>>,
           <<N("refresh_rate"), Val(PyInt(10))>>,
           <<N("refresh_per_second"), Val(PyFloat("fin", 1))>>,
           <<N("reset_hour"), Val(reset_hour)>>})

Configs ==
    {PyNone, UsageConfig("custom", PyNone, "realtime", PyNone),
     UsageConfig("pro", PyInt(5000), "daily", PyInt(23))}

DumpDict == PyDict([plan |-> S("pro"), view |-> S("daily")])

\* upstream Settings objects: pydantic v2, pydantic v1, neither, and two
\* whose serialization fails
SettingsObjs ==
    {MkObj({<<N("model_dump"), Val(Method(Ret(DumpDict)))>>,
            <<N("dict"), Val(Method(Ret(PyDict(<<>>))))>>}),
     MkObj({<<N("dict"), Val(Method(Ret(DumpDict)))>>}),
     MkObj({<<N("plan"), Val(S("pro"))>>, <<N("view"), Val(S("daily"))>>,
            <<N("theme"), Boom("RuntimeError", "boom")>>}),
     MkObj({<<N("model_dump"), Val(Method(Raise("ValueError", "")))>>}),
     MkObj({<<N("model_dump"), Boom("RuntimeError", "boom")>>})}

ASettings == MkObj({<<N("model_dump"), Val(Method(Ret(DumpDict)))>>})

UpOk(settings, current_data) ==
    [Settings |-> Ret(settings), DataManager |-> Ret(PyObj(<<>>)),
     MonitoringOrchestrator |-> Ret(PyObj(<<>>)), update |-> Ret(PyNone),
     get_current_data |-> Ret(current_data)]

UpstreamSteps == {"Settings", "DataManager", "MonitoringOrchestrator", "update",
                  "get_current_data"}

\* what an upstream call may raise: with a message or without one
UpstreamErrors == {Raise("ValidationError", "reset_hour: out of range"),
                   Raise("ValueError", "")}

GoodSession ==
    MkObj({<<N("id"), Val(S("s1"))>>, <<N("is_active"), Val(PyBool(TRUE))>>,
           <<N("cost_usd"), Val(PyFloat("fin", 2))>>,
           <<N("sent_messages_count"), Val(PyInt(3))>>,
           <<N("start_time"), Val(PyInt(1700000000))>>,
           <<N("end_time"), Val(PyInt(1700003600))>>,
           <<N("token_counts"), Val(TokenObj(PyInt(10), PyInt(5), PyInt(0), PyInt(0)))>>})
OtherSession ==
    MkObj({<<N("id"), Val(S("s2"))>>, <<N("is_active"), Val(PyBool(FALSE))>>,
           <<N("cost_usd"), Val(PyFloat("fin", 1))>>,
           <<N("sent_messages_count"), Val(PyInt(1))>>})
\* a session with a start_time and an end_time that is no timestamp
StartOnlySession ==
    MkObj({<<N("id"), Val(S("s3"))>>, <<N("is_active"), Val(PyBool(TRUE))>>,
           <<N("cost_usd"), Val(PyFloat("fin", 1))>>,
           <<N("sent_messages_count"), Val(PyInt(2))>>,
           <<N("start_time"), Val(PyInt(1700000000))>>,
           <<N("end_time"), Val(NotADate)>>})
RaisingSession == MkObj({<<N("id"), Boom("RuntimeError", "boom")>>})

RECURSIVE SeqsUpTo(_, _)
SeqsUpTo(Elems, n) ==
    IF n = 0 THEN {<<>>}
    ELSE LET shorter == SeqsUpTo(Elems, n - 1)
         IN  shorter \cup {Append(q, e) : q \in shorter, e \in Elems}

CurrentChoices ==
    None1 \cup {{<<N("current_session"), Val(v)>>} : v \in {GoodSession, RaisingSession}}
RecentChoices ==
    None1 \cup {{<<N("recent_sessions"), Val(PyInt(5))>>}}
    \cup {{<<N("recent_sessions"), Val(PyList(q))>>} :
            q \in SeqsUpTo({GoodSession, OtherSession, RaisingSession}, MaxRecent)}
RateChoices ==
    None1 \cup {{<<N("burn_rate"), Val(v)>>} :
        v \in {BurnObj(PyFloat("fin", 120), PyFloat("fin", 3)),
               BurnObj(PyNone, PyFloat("fin", 3)),
               MkObj({<<N("cost_per_hour"), Val(PyFloat("fin", 3))>>})}}
PredictionChoices ==
    None1 \cup {{<<N("predictions"), Val(v)>>} :
        v \in {MkObj({<<N("tokens_run_out"), Val(PyInt(1704110400))>>,
                      <<N("limit_resets_at"), Val(IsoZ)>>}),
               MkObj({<<N("tokens_run_out"), Val(NotADate)>>}),
               MkObj({<<N("tokens_run_out"), Val(PyFloat("nan", 0))>>})}}
TotalsObj(a, b, c, d) ==
    MkObj({<<N("cost_percentage"), Val(a)>>, <<N("token_percentage"), Val(b)>>,
           <<N("message_percentage"), Val(c)>>,
           <<N("time_to_reset_percentage"), Val(d)>>})
TotalsChoices ==
    None1 \cup {{<<N("totals"), Val(v)>>} :
        v \in {TotalsObj(PyFloat("fin", 10), PyFloat("fin", 20), PyFloat("fin", 30),
                         PyFloat("fin", 40)),
               TotalsObj(PyFloat("fin", 10), PyFloat("fin", 150), PyFloat("fin", 30),
                         PyFloat("fin", 40)),
               MkObj({<<N("cost_percentage"), Val(PyFloat("fin", 10))>>})}}

CurrentDatas ==
    {PyNone} \cup
    {MkObj(a \cup b \cup c \cup d \cup e) :
        a \in CurrentChoices, b \in RecentChoices, c \in RateChoices,
        d \in PredictionChoices, e \in TotalsChoices}

StatsUpstreams ==
    {UpOk(ASettings, cd) : cd \in CurrentDatas}
    \cup {[UpOk(ASettings, PyNone) EXCEPT ![st] = e] :
            st \in UpstreamSteps, e \in UpstreamErrors}

ValidateUpstreams ==
    {UpOk(st, PyNone) : st \in SettingsObjs}
    \cup {[UpOk(ASettings, PyNone) EXCEPT !["Settings"] = e] : e \in UpstreamErrors}

\* get_session_history: the window asked for, and what the library does
HoursBack == {24, 1, 0, -3}

HistoryOk(sessions) ==
    [Settings |-> Ret(ASettings), DataManager |-> Ret(PyObj(<<>>)),
     get_recent_sessions |-> Ret(sessions)]

HistorySteps == {"Settings", "DataManager", "get_recent_sessions"}

HistoryUpstreams ==
    {HistoryOk(PyList(q)) :
        q \in SeqsUpTo({GoodSession, OtherSession, RaisingSession}, MaxRecent)}
    \cup {HistoryOk(PyNone)}
    \cup {[HistoryOk(PyList(<<>>)) EXCEPT ![st] = e] :
            st \in HistorySteps, e \in UpstreamErrors}

\* which modules import, and which class and function attributes they hold
LoadAll(outcome) == [m \in ModuleNames |-> outcome]
LoadChoices ==
    {LoadAll("ok"), LoadAll("ImportError"),
     [LoadAll("ImportError") EXCEPT !["settings"] = "ok"],
     [LoadAll("ok") EXCEPT !["orchestrator"] = "Exception"],
     [LoadAll("ok") EXCEPT !["settings"] = "ImportError", !["plans"] = "Exception"]}

\* the path given to BridgeConfig, and the installations on the machine
ConfiguredChoices == {NoPath, "explicit"}
ValidChoices == {{}, {"explicit"}, {"relative", "opt"}, {"home", "usr_local"},
                 {"usr_local"}, {"explicit", "relative"}}
AllOk == [c \in DOMAIN ClassModule |-> "ok"]
ClassChoices == {AllOk, [AllOk EXCEPT !["DataManager"] = "missing"],
                 [AllOk EXCEPT !["DataManager"] = "raises"]}
FunctionChoices == {[normalize_model_name |-> x] : x \in {"ok", "missing", "raises"}}

Argv0 == <<"uvicorn", "main:app", "--reload">>

----------------------------------------------------------------------------
(* The wrapper as a state machine: bind once, then serve calls one at a time *)

NoInput == [fn |-> "none"]
NoThreads == <<>>
NoOutput == [raised |-> FALSE, v |-> PyNone]

Unbound ==
    /\ phase = "unbound" /\ is_available = FALSE
    /\ modules = {} /\ classes = {} /\ functions = {}
    /\ argv = Argv0

Init ==
    /\ op = "none" /\ inp = NoInput /\ out = NoOutput /\ calls = <<>>
    /\ clock = ClockBase
    /\ Unbound
    /\ threads = NoThreads /\ config_store = PyNone

registry == <<phase, is_available, modules, classes, functions>>

\* ClaudeMonitorWrapper.__init__ and _setup_monitor
SetupMonitor ==
    /\ phase = "unbound" /\ op = "none"
    /\ \E configured \in ConfiguredChoices, valid \in ValidChoices,
          load \in LoadChoices, cp \in ClassChoices, fp \in FunctionChoices :
        \E r \in {setup_monitor(configured, valid, load, cp, fp, argv)} :
            /\ modules' = r.modules
            /\ classes' = r.classes
            /\ functions' = r.functions
            /\ is_available' = r.is_available
            /\ calls' = r.calls
            /\ argv' = r.argv
            /\ inp' = [fn |-> "setup_monitor", configured |-> configured,
                       valid |-> valid, root |-> r.root, load |-> load,
                       clook |-> cp, flook |-> fp]
    /\ op' = "setup_monitor"
    /\ phase' = "bound"
    /\ UNCHANGED <<config_store, threads, out, clock>>

GetUsageStatistics ==
    /\ phase = "bound" /\ op = "none"
    /\ \E cfg \in Configs, up \in StatsUpstreams :
        \E r \in {get_usage_statistics(is_available, classes, argv, cfg, up,
                                        NoTicks(clock))} :
            /\ inp' = [fn |-> "get_usage_statistics", config_params |-> cfg, up |-> up,
                       caught |-> r.caught]
            /\ out' = r.res
            /\ calls' = r.calls
            /\ argv' = SettingsArgv(argv, Len(r.calls) > 0, up.Settings.raised)
    /\ op' = "get_usage_statistics"
    /\ UNCHANGED <<config_store, threads, clock, registry>>

ValidateConfiguration ==
    /\ phase = "bound" /\ op = "none"
    /\ \E cfg \in Configs \ {PyNone}, up \in ValidateUpstreams :
        \E r \in {validate_configuration(is_available, classes, argv, cfg, up)} :
            /\ inp' = [fn |-> "validate_configuration", config_data |-> cfg, up |-> up]
            /\ out' = r.res
            /\ calls' = r.calls
            /\ argv' = SettingsArgv(argv, Len(r.calls) > 0, up.Settings.raised)
    /\ op' = "validate_configuration"
    /\ UNCHANGED <<config_store, threads, clock, registry>>

\* get_session_history(hours_back)
GetSessionHistory ==
    /\ phase = "bound" /\ op = "none"
    /\ \E h \in HoursBack, up \in HistoryUpstreams :
        \E r \in {get_session_history(is_available, classes, argv, h, up,
                                       NoTicks(clock))} :
            /\ inp' = [fn |-> "get_session_history", hours_back |-> h, up |-> up,
                       caught |-> r.caught]
            /\ out' = r.res
            /\ calls' = r.calls
            /\ argv' = SettingsArgv(argv, Len(r.calls) > 0, up.Settings.raised)
    /\ op' = "get_session_history"
    /\ UNCHANGED <<config_store, threads, clock, registry>>

\* convert_session_block(monitor_session), called on the bound wrapper
ConvertSession ==
    /\ phase = "bound" /\ op = "none"
    /\ \E ms \in {PyNone, GoodSession, OtherSession, RaisingSession, StartOnlySession} :
        /\ inp' = [fn |-> "convert_session_block", monitor_session |-> ms]
        /\ out' = convert_session_block(ms, NoTicks(clock))
    /\ op' = "convert_session_block"
    /\ UNCHANGED <<config_store, threads, calls, clock, argv, registry>>

\* faulty variant: the info call works the availability out again
GetMonitorInfoRebinding ==
    /\ phase = "bound" /\ op = "none"
    /\ is_available' = (modules # {})
    /\ inp' = [fn |-> "get_monitor_info"]
    /\ out' = Ret(get_monitor_info(is_available', modules, classes, functions))
    /\ op' = "get_monitor_info"
    /\ UNCHANGED <<config_store, threads, calls, clock, argv, phase, modules, classes, functions>>

\* get_monitor_info()
GetMonitorInfo ==
    /\ phase = "bound" /\ op = "none"
    /\ inp' = [fn |-> "get_monitor_info"]
    /\ out' = Ret(get_monitor_info(is_available, modules, classes, functions))
    /\ op' = "get_monitor_info"
    /\ UNCHANGED <<config_store, threads, calls, clock, argv, registry>>

\* the call returns to its caller; the wrapper is idle again
Return ==
    /\ op # "none"
    /\ op' = "none" /\ inp' = NoInput /\ out' = NoOutput /\ calls' = <<>>
    /\ UNCHANGED <<config_store, threads, clock, argv, registry>>

Next ==
    \/ SetupMonitor \/ GetUsageStatistics \/ ValidateConfiguration
    \/ GetSessionHistory \/ ConvertSession \/ GetMonitorInfo \/ Return

Spec == Init /\ [][Next]_vars

----------------------------------------------------------------------------
(* The reader and the converter as pure functions of their arguments *)

\* what a caller may pass for a counter of TokenCounts
CounterInputs == {PyInt(0), PyInt(3), PyInt(4), S("x")}

PureInputs ==
    {[fn |-> "safe_getattr", obj |-> o, attr |-> a, default |-> d] :
        o \in ResolveObjs, a \in ResolvePaths, d \in ResolveDefaults}
    \cup {[fn |-> "extract_properties", obj |-> o, property_map |-> pm] :
        o \in ResolveObjs, pm \in PropertyMaps}
    \cup {[fn |-> "convert_datetime", dt |-> v] : v \in DatetimeInputs}
    \cup {[fn |-> "TokenCounts", a |-> a, b |-> b, c |-> c, d |-> d] :
            a \in CounterInputs, b \in CounterInputs, c \in CounterInputs,
            d \in CounterInputs}
    \cup {[fn |-> "convert_session_block", monitor_session |-> ms, rd |-> rd] :
        ms \in SessionInputs, rd \in Readings(ClockBase)}

InitPure ==
    /\ op = "none" /\ inp \in PureInputs /\ out = NoOutput /\ calls = <<>>
    /\ clock = ClockBase
    /\ Unbound
    /\ threads = NoThreads /\ config_store = PyNone

CallSafeGetattr ==
    /\ op = "none" /\ inp.fn = "safe_getattr"
    /\ op' = "safe_getattr"
    /\ out' = safe_getattr(inp.obj, inp.attr, inp.default)
    /\ UNCHANGED <<config_store, threads, inp, calls, clock, argv, registry>>

CallExtractProperties ==
    /\ op = "none" /\ inp.fn = "extract_properties"
    /\ op' = "extract_properties"
    /\ out' = extract_properties(inp.obj, inp.property_map)
    /\ UNCHANGED <<config_store, threads, inp, calls, clock, argv, registry>>

CallConvertDatetime ==
    /\ op = "none" /\ inp.fn = "convert_datetime"
    /\ op' = "convert_datetime"
    /\ out' = convert_datetime(inp.dt)
    /\ UNCHANGED <<config_store, threads, inp, calls, clock, argv, registry>>

CallConvertSessionBlock ==
    /\ op = "none" /\ inp.fn = "convert_session_block"
    /\ op' = "convert_session_block"
    /\ out' = convert_session_block(inp.monitor_session, inp.rd)
    /\ clock' = inp.rd[6]
    /\ UNCHANGED <<config_store, threads, inp, calls, argv, registry>>

\* TokenCounts(input_tokens=a, output_tokens=b, cache_creation_tokens=c,
\* cache_read_tokens=d)
CallTokenCounts ==
    /\ op = "none" /\ inp.fn = "TokenCounts"
    /\ op' = "TokenCounts"
    /\ out' = TokenCounts(inp.a, inp.b, inp.c, inp.d)
    /\ UNCHANGED <<config_store, threads, inp, calls, clock, argv, registry>>

NextPure ==
    \/ CallSafeGetattr \/ CallExtractProperties
    \/ CallConvertDatetime \/ CallConvertSessionBlock \/ CallTokenCounts

SpecPure == InitPure /\ [][NextPure]_vars

----------------------------------------------------------------------------
(* Concurrent callers of one bound wrapper: the steps of create_settings    *)
(* that read or write sys.argv, one statement at a time                     *)

Threads == 1..NThreads

Idle == [pc |-> "idle", fn |-> "none", original_argv |-> <<>>, raised |-> FALSE]

\* the wrapper after a binding pass in which everything loaded, no caller yet
InitConc ==
    /\ op = "none" /\ inp = NoInput /\ out = NoOutput /\ calls = <<>>
    /\ clock = ClockBase /\ phase = "bound" /\ argv = Argv0
    /\ \E r \in {setup_monitor(NoPath, {"relative"}, LoadAll("ok"), AllOk,
                               [normalize_model_name |-> "ok"], Argv0)} :
        /\ modules = r.modules /\ classes = r.classes
        /\ functions = r.functions /\ is_available = r.is_available
    /\ threads = [t \in Threads |-> Idle] /\ config_store = PyNone

\* a caller enters get_usage_statistics, validate_configuration or
\* get_session_history, passes the availability check, reaches
\* create_settings and runs line 94: original_argv = sys.argv.copy()
EnterCreateSettings(t) ==
    /\ threads[t].pc = "idle"
    /\ is_available /\ "Settings" \in classes
    /\ \E fn \in {"get_usage_statistics", "validate_configuration",
                  "get_session_history"} :
        threads' = [threads EXCEPT ![t] = [pc |-> "saved", fn |-> fn,
                                           original_argv |-> argv,
                                           raised |-> FALSE]]
    /\ UNCHANGED <<config_store, op, inp, out, calls, clock, argv, registry>>

\* line 97: sys.argv = [sys.argv[0]]
ReplaceArgv(t) ==
    /\ threads[t].pc = "saved"
    /\ argv' = GuardedArgv(argv)
    /\ threads' = [threads EXCEPT ![t].pc = "replaced"]
    /\ UNCHANGED <<config_store, op, inp, out, calls, clock, registry>>

\* line 213: Settings(**kwargs) returns or raises
ConstructSettings(t) ==
    /\ threads[t].pc = "replaced"
    /\ \E raised \in BOOLEAN :
        threads' = [threads EXCEPT ![t].pc = "built", ![t].raised = raised]
    /\ UNCHANGED <<config_store, op, inp, out, calls, clock, argv, registry>>

\* line 101: sys.argv = original_argv; the rest of the call touches nothing
\* shared, and the call returns
RestoreAndReturn(t) ==
    /\ threads[t].pc = "built"
    /\ argv' = RestoreArgv(threads[t].original_argv, argv, threads[t].raised)
    /\ threads' = [threads EXCEPT ![t].pc = "returned"]
    /\ UNCHANGED <<config_store, op, inp, out, calls, clock, registry>>

NextConc ==
    \E t \in Threads :
        \/ EnterCreateSettings(t) \/ ReplaceArgv(t)
        \/ ConstructSettings(t) \/ RestoreAndReturn(t)

SpecConc == InitConc /\ [][NextConc]_vars

----------------------------------------------------------------------------
(* The HTTP service of main.py over the monitor integration of monitor.py:  *)
(* one request at a time, each followed by its response                      *)

\* the fields of a UsageConfig that the endpoints read or write; the others
\* (id, time_format, theme, refresh_rate, refresh_per_second) stay at their
\* defaults
UsageConfigFields(plan, custom_limit_tokens, view, timezone, reset_hour, created_at, updated_at) ==
    [plan |-> plan, custom_limit_tokens |-> custom_limit_tokens, view |-> view,
     timezone |-> timezone, reset_hour |-> reset_hour,
     created_at |-> created_at, updated_at |-> updated_at]

\* UsageConfig(**config_dict): the Literal and range constraints of the model
UsageConfigValidated(d) ==
    IF d.plan \notin {S("pro"), S("max5"), S("max20"), S("custom")}
    THEN ValidationError("plan")
    ELSE IF d.view \notin {S("realtime"), S("daily"), S("monthly"), S("session")}
    THEN ValidationError("view")
    ELSE IF d.custom_limit_tokens # PyNone /\ d.custom_limit_tokens.i <= 0
    THEN ValidationError("custom_limit_tokens")
    ELSE IF d.reset_hour # PyNone /\ d.reset_hour.i \notin 0..23
    THEN ValidationError("reset_hour")
    ELSE Ret(d)

\* get_current_config(): the store, created with the defaults on first use
get_current_config(store) ==
    IF store = PyNone
    THEN UsageConfigFields(S("custom"), PyNone, S("realtime"), S("auto"), PyNone,
                           PyNone, PyNone)
    ELSE store

\* update_config_store(config_data): the value the store holds afterwards
update_config_store(config_data, now) ==
    [config_data EXCEPT !.updated_at = utcnow(now),
                        !.created_at = IF @ = PyNone THEN utcnow(now) ELSE @]

\* ClaudeMonitorIntegration.validate_config: made is what Settings(**kwargs)
\* followed by model_dump() does
validate_config(avail, config_data, made) ==
    IF ~avail THEN Invalid("Claude Monitor not available")
    ELSE IF made.raised THEN Invalid(made.exc.msg)
    ELSE Valid(made.v)

\* faulty variant: every supplied parameter is taken, whatever its value
QueryParamsSupplied(q) ==
    [x \in {y \in DOMAIN q : q[y] # PyNone} |-> q[x]]

\* lines 144-153: the overrides taken from the query parameters
QueryParams(q) ==
    [x \in {y \in DOMAIN q : IF y = "reset_hour" THEN q[y] # PyNone ELSE Truthy(q[y])}
        |-> q[x]]

\* lines 141-162: the config of the request, or the ValidationError of the merge
QueryConfig(store, q) ==
    IF \E y \in DOMAIN q : Truthy(q[y])
    THEN UsageConfigValidated(
             [x \in DOMAIN get_current_config(store) |->
                 IF x \in DOMAIN QueryParams(q) THEN QueryParams(q)[x]
                 ELSE get_current_config(store)[x]])
    ELSE Ret(get_current_config(store))

\* ClaudeMonitorIntegration.get_usage_stats: UsageStats() when unavailable or
\* when the try block raised, what the try block built otherwise
monitor_get_usage_stats(avail, built) ==
    IF ~avail \/ built.raised THEN EmptyStats ELSE built.v

\* ClaudeMonitorIntegration.get_session_history, likewise
monitor_get_session_history(avail, built) ==
    IF ~avail \/ built.raised THEN <<>> ELSE built.v

Response(status, body) == [status |-> status, body |-> body]

\* the request bodies that pass the schema of UsageConfig
Bodies ==
    {get_current_config(PyNone),
     UsageConfigFields(S("pro"), PyInt(5000), S("daily"), S("auto"), PyInt(23),
                       PyNone, PyNone),
     UsageConfigFields(S("max5"), PyNone, S("monthly"), S("UTC"), PyInt(0),
                       utcnow(ClockBase - 60), PyNone)}

\* the query strings of GET /usage/stats that pass the parameter checks
Queries ==
    [plan : {PyNone, S("pro"), PyStr(<<>>), S("bogus")},
     custom_limit_tokens : {PyNone, PyInt(7000)},
     timezone : {PyNone, S("UTC")},
     reset_hour : {PyNone, PyInt(0), PyInt(5)},
     view : {PyNone, S("daily")}]

\* what the try block of the monitor does in one call
StatsBuilt == {Ret(EmptyStats), Raise("RuntimeError", "boom")}
SessionsBuilt == {Ret(<<>>), Raise("RuntimeError", "boom")}
SettingsMade == {Ret(DumpDict), Raise("ValueError", "invalid plan")}

\* the service after start-up: the monitor bound or not, the store empty
InitHttp ==
    /\ op = "none" /\ inp = NoInput /\ out = NoOutput /\ calls = <<>>
    /\ clock = ClockBase /\ phase = "bound" /\ is_available \in BOOLEAN
    /\ modules = {} /\ classes = {} /\ functions = {} /\ argv = Argv0
    /\ threads = NoThreads /\ config_store = PyNone

\* GET /usage/stats
GetUsageStats ==
    /\ op = "none"
    /\ \E q \in Queries, built \in StatsBuilt :
        \E c \in {QueryConfig(config_store, q)} :
            /\ inp' = [fn |-> "get_usage_stats", q |-> q]
            /\ calls' = IF c.raised THEN <<>>
                        ELSE <<[call |-> "get_usage_stats", config_params |-> c.v]>>
            /\ out' = IF c.raised THEN Response(422, c.exc.msg)
                      ELSE Response(200, monitor_get_usage_stats(is_available, built))
    /\ config_store' = get_current_config(config_store)
    /\ op' = "get_usage_stats"
    /\ UNCHANGED <<threads, clock, argv, registry>>

\* GET /usage/config
GetUsageConfig ==
    /\ op = "none"
    /\ config_store' = get_current_config(config_store)
    /\ inp' = [fn |-> "get_usage_config"]
    /\ out' = Response(200, config_store')
    /\ op' = "get_usage_config"
    /\ UNCHANGED <<threads, calls, clock, argv, registry>>

\* faulty variant: the store is written before the validation is looked at
UpdateUsageConfigEager ==
    /\ op = "none"
    /\ \E config_data \in Bodies, made \in SettingsMade :
        \E r \in {validate_config(is_available, config_data, made)} :
            /\ inp' = [fn |-> "update_usage_config", config_data |-> config_data,
                       validation_result |-> r]
            /\ calls' = <<[call |-> "validate_config", config_data |-> config_data]>>
            /\ config_store' = update_config_store(config_data, clock)
            /\ out' = IF r.valid THEN Response(200, config_store')
                      ELSE Response(422, r.error)
    /\ op' = "update_usage_config"
    /\ UNCHANGED <<threads, clock, argv, registry>>

\* POST /usage/config
UpdateUsageConfig ==
    /\ op = "none"
    /\ \E config_data \in Bodies, made \in SettingsMade :
        \E r \in {validate_config(is_available, config_data, made)} :
            /\ inp' = [fn |-> "update_usage_config", config_data |-> config_data,
                       validation_result |-> r]
            /\ calls' = <<[call |-> "validate_config", config_data |-> config_data]>>
            /\ config_store' = IF r.valid THEN update_config_store(config_data, clock)
                               ELSE config_store
            /\ out' = IF r.valid THEN Response(200, config_store')
                      ELSE Response(422, r.error)
    /\ op' = "update_usage_config"
    /\ UNCHANGED <<threads, clock, argv, registry>>

\* GET /usage/sessions
GetUsageSessions ==
    /\ op = "none"
    /\ \E hours_back \in {1, 24, 168}, built \in SessionsBuilt :
        /\ inp' = [fn |-> "get_usage_sessions", hours_back |-> hours_back]
        /\ calls' = <<[call |-> "get_session_history", hours_back |-> hours_back]>>
        /\ out' = Response(200, monitor_get_session_history(is_available, built))
    /\ op' = "get_usage_sessions"
    /\ UNCHANGED <<config_store, threads, clock, argv, registry>>

\* GET /usage/validate-config
ValidateConfig ==
    /\ op = "none"
    /\ \E config_data \in Bodies, made \in SettingsMade :
        /\ inp' = [fn |-> "validate_config", config_data |-> config_data]
        /\ calls' = <<[call |-> "validate_config", config_data |-> config_data]>>
        /\ out' = Response(200, validate_config(is_available, config_data, made))
    /\ op' = "validate_config"
    /\ UNCHANGED <<config_store, threads, clock, argv, registry>>

\* the response is sent; time may pass before the next request
Respond ==
    /\ op # "none"
    /\ op' = "none" /\ inp' = NoInput /\ out' = NoOutput /\ calls' = <<>>
    /\ \E d \in 0..1 : clock + d <= ClockBase + MaxTick /\ clock' = clock + d
    /\ UNCHANGED <<config_store, threads, argv, registry>>

NextHttp ==
    \/ GetUsageStats \/ GetUsageConfig \/ UpdateUsageConfig
    \/ GetUsageSessions \/ ValidateConfig \/ Respond

SpecHttp == InitHttp /\ [][NextHttp]_vars

----------------------------------------------------------------------------
(* Properties of get_usage_statistics (checked under Spec) *)

\* the attribute name of the current data of the call in progress, or None
CurrentAttr(name) == safe_getattr(inp.up.get_current_data.v, N(name), PyNone).v

\* the upstream chain ran to the end: every class is bound, no call raised
ChainRan ==
    /\ is_available
    /\ {"Settings", "DataManager", "MonitoringOrchestrator"} \subseteq classes
    /\ \A st \in UpstreamSteps : ~inp.up[st].raised

\* a step of the assembly is known to raise: an upstream call, a class that
\* is not bound, a session whose id cannot be read, a recent_sessions value
\* that cannot be iterated, or a percentage out of range
StepRaises ==
    /\ is_available
    /\ \/ \E st \in UpstreamSteps : inp.up[st].raised
       \/ ~({"Settings", "DataManager", "MonitoringOrchestrator"} \subseteq classes)
       \/ CurrentAttr("current_session") = RaisingSession
       \/ CurrentAttr("recent_sessions") = PyInt(5)
       \/ /\ CurrentAttr("totals").k = "obj"
          /\ N("token_percentage") \in DOMAIN CurrentAttr("totals").attrs
          /\ CurrentAttr("totals").attrs[N("token_percentage")].v.i > 100

\* C1: get_usage_statistics never propagates an exception, and whenever a
\* step of the assembly raised the result is the zero-valued UsageStats of
\* the unavailable case, never a partially populated one.
C1_StatsDegradeWhole ==
    op = "get_usage_statistics" =>
        /\ ~out.raised
        /\ (inp.caught \/ StepRaises => out.v = EmptyStats)

\* C1 witness: the chain ran, the current session was converted, and a later
\* step (the totals) raised; the result is the zero-valued stats.
C1_Witness ==
    /\ op = "get_usage_statistics" /\ ChainRan /\ inp.caught
    /\ CurrentAttr("current_session") = GoodSession
    /\ Truthy(CurrentAttr("totals"))
    /\ out.v.current_session = PyNone

\* C2: when unavailable, get_usage_statistics returns for every config the
\* UsageStats with no current session, no recent sessions, zero burn rate,
\* absent predictions and zero totals, and makes no upstream call.
C2_UnavailableZeroStats ==
    op = "get_usage_statistics" /\ ~is_available =>
        /\ ~out.raised
        /\ out.v.current_session = PyNone
        /\ out.v.recent_sessions = <<>>
        /\ out.v.burn_rate.tokens_per_minute = PyFloat("fin", 0)
        /\ out.v.burn_rate.cost_per_hour = PyFloat("fin", 0)
        /\ out.v.predictions.tokens_run_out = PyNone
        /\ out.v.predictions.limit_resets_at = PyNone
        /\ \A f \in {"cost_percentage", "token_percentage", "message_percentage",
                     "time_to_reset_percentage"} : out.v.totals[f] = PyFloat("fin", 0)
        /\ calls = <<>>

\* C2 witness: an unavailable wrapper that still holds the Settings class is
\* asked for statistics with a config, over an upstream that would answer.
C2_Witness ==
    /\ op = "get_usage_statistics" /\ ~is_available /\ "Settings" \in classes
    /\ inp.config_params # PyNone
    /\ \A st \in UpstreamSteps : ~inp.up[st].raised
    /\ Truthy(CurrentAttr("current_session"))

\* C10: validate_configuration never raises; when the layer is unavailable
\* or constructing the settings fails it returns valid=false with a
\* non-empty error string, and when construction succeeds it returns
\* valid=true with a serialized view of the settings.
C10_ValidateTotal ==
    op = "validate_configuration" =>
        /\ ~out.raised
        /\ (~is_available \/ "Settings" \notin classes \/ inp.up.Settings.raised =>
                /\ out.v.valid = FALSE
                /\ Len(out.v.error) > 0)
        /\ (is_available /\ "Settings" \in classes /\ ~inp.up.Settings.raised =>
                /\ out.v.valid = TRUE
                /\ out.v.settings.k = "dict")

\* the chain ran and the upstream totals hold a token percentage above 100
TotalsOutOfRange ==
    /\ ChainRan
    /\ CurrentAttr("totals").k = "obj"
    /\ N("token_percentage") \in DOMAIN CurrentAttr("totals").attrs
    /\ CurrentAttr("totals").attrs[N("token_percentage")].v.i > 100

\* C17: a percentage of the upstream totals outside [0, 100] is neither
\* clamped nor rejected: it appears unchanged in the returned totals, and
\* the rest of the result is still populated from upstream.
C17_TotalsPassThrough ==
    (op = "get_usage_statistics" /\ TotalsOutOfRange) =>
        /\ ~out.raised
        /\ out.v.totals.token_percentage =
              CurrentAttr("totals").attrs[N("token_percentage")].v
        /\ (CurrentAttr("current_session") = GoodSession
               => out.v.current_session # PyNone)
        /\ (CurrentAttr("recent_sessions") = PyList(<<GoodSession>>)
               => Len(out.v.recent_sessions) = 1)

----------------------------------------------------------------------------
(* The parameters given to the upstream Settings (checked under Spec) *)

\* the config the caller passed to the call in progress
CallerConfig ==
    IF op = "get_usage_statistics" THEN inp.config_params ELSE inp.config_data

\* the call in progress built settings parameters and constructed Settings
BuiltSettings ==
    /\ op \in {"get_usage_statistics", "validate_configuration"}
    /\ Len(calls) >= 1 /\ calls[1].call = "Settings"

BaseParameters == {"plan", "view", "timezone", "time_format", "theme",
                   "refresh_rate", "refresh_per_second", "reset_hour"}

ConfigValue(name) == CallerConfig.attrs[N(name)].v

\* C19 (as stated): only the fields the caller set are passed: a field left
\* unset (reset_hour absent, custom_limit_tokens absent) is not among the
\* parameters of the Settings constructor, and with no config none is passed.
C19_OnlySetFieldsPassed ==
    BuiltSettings =>
        IF CallerConfig = PyNone THEN calls[1].args = <<>>
        ELSE \A x \in DOMAIN calls[1].args : ConfigValue(x) # PyNone

\* C19 (amended): with a config the eight base parameters are always
\* passed with the values the config holds, null included, and
\* custom_limit_tokens is passed only when it holds a non-zero value; with
\* no config no parameter is passed.
C19_BaseFieldsAlwaysPassed ==
    BuiltSettings =>
        IF CallerConfig = PyNone THEN calls[1].args = <<>>
        ELSE /\ BaseParameters \subseteq DOMAIN calls[1].args
             /\ DOMAIN calls[1].args \subseteq BaseParameters \cup {"custom_limit_tokens"}
             /\ \A x \in DOMAIN calls[1].args : calls[1].args[x] = ConfigValue(x)
             /\ "custom_limit_tokens" \in DOMAIN calls[1].args <=>
                   ConfigValue("custom_limit_tokens") \notin {PyNone, PyInt(0)}

\* C19 witness: a config without reset_hour and without custom_limit_tokens
\* reached the Settings constructor, reset_hour=None among the parameters
C19_Witness ==
    /\ BuiltSettings /\ CallerConfig # PyNone
    /\ ConfigValue("reset_hour") = PyNone
    /\ ConfigValue("custom_limit_tokens") = PyNone
    /\ "reset_hour" \in DOMAIN calls[1].args
    /\ "custom_limit_tokens" \notin DOMAIN calls[1].args

----------------------------------------------------------------------------
(* Defaults of the statistics and of the session timestamps (under Spec) *)

\* upstream supplies attribute f of the object held under name in the
\* current data
Supplied(name, f) ==
    /\ ChainRan /\ CurrentAttr(name).k = "obj"
    /\ N(f) \in DOMAIN CurrentAttr(name).attrs

\* the value of a supplied prediction timestamp normalizes to a datetime
Normalizes(v) == ~convert_datetime(v).raised /\ convert_datetime(v).v # PyNone

PredictionUsable(f) ==
    Supplied("predictions", f)
    /\ Normalizes(CurrentAttr("predictions").attrs[N(f)].v)

\* the session handed to convert_session_block has a timestamp under f
\* that normalizes to a datetime
SessionTimeUsable(f) ==
    /\ inp.monitor_session.k = "obj"
    /\ N(f) \in DOMAIN inp.monitor_session.attrs
    /\ Normalizes(inp.monitor_session.attrs[N(f)].v)

\* C23: in the stats a prediction timestamp that upstream does not supply
\* or that does not normalize is absent, never the current time, and a
\* burn-rate or totals number that upstream does not supply is zero; in a
\* converted session start_time and end_time each default to the current
\* time, independently, when its normalization yields null.
C23_DefaultsAbsentZeroNow ==
    /\ op = "get_usage_statistics" =>
          /\ ~out.raised
          /\ \A f \in {"tokens_run_out", "limit_resets_at"} :
                /\ ~PredictionUsable(f) => out.v.predictions[f] = PyNone
                /\ out.v.predictions[f] # PyNone =>
                      out.v.predictions[f] =
                          convert_datetime(CurrentAttr("predictions").attrs[N(f)].v).v
          /\ \A f \in {"tokens_per_minute", "cost_per_hour"} :
                ~Supplied("burn_rate", f) => out.v.burn_rate[f] = Zero
          /\ \A f \in {"cost_percentage", "token_percentage", "message_percentage",
                       "time_to_reset_percentage"} :
                ~Supplied("totals", f) => out.v.totals[f] = Zero
    /\ (op = "convert_session_block" /\ ~out.raised) =>
          \A f \in {"start_time", "end_time"} :
              /\ ~SessionTimeUsable(f) =>
                    out.v[f].k = "datetime" /\ ToEpoch(out.v[f]) = clock
              /\ (SessionTimeUsable(f)
                  /\ ~ConvertTry(inp.monitor_session, NoTicks(clock)).raised) =>
                    out.v[f] = convert_datetime(inp.monitor_session.attrs[N(f)].v).v

\* C23 witness: the stats were assembled from predictions that supply only
\* a tokens_run_out which is no timestamp, and from totals that supply one
\* percentage only
C23_Witness ==
    /\ op = "get_usage_statistics" /\ ChainRan /\ ~inp.caught
    /\ Supplied("predictions", "tokens_run_out")
    /\ ~PredictionUsable("tokens_run_out")
    /\ ~Supplied("predictions", "limit_resets_at")
    /\ Supplied("totals", "cost_percentage")
    /\ ~Supplied("totals", "token_percentage")
    /\ out.v.totals.cost_percentage # Zero
    /\ out.v.predictions.tokens_run_out = PyNone

----------------------------------------------------------------------------
(* The upstream steps of one get_usage_statistics (checked under Spec) *)

ChainOrder == <<"Settings", "DataManager", "MonitoringOrchestrator", "update",
                "get_current_data">>

\* C24: a get_usage_statistics call on an available layer performs the
\* upstream steps in the order Settings, DataManager (from those settings),
\* MonitoringOrchestrator (from the data manager and the settings),
\* update(), get_current_data(), each at most once and all of them when
\* none fails; no step follows a failed one or is retried,
\* get_current_data() only follows a returned update(), and every call
\* constructs its own settings.
C24_ChainOrderOncePerCall ==
    (op = "get_usage_statistics" /\ is_available) =>
        /\ Len(calls) <= Len(ChainOrder)
        /\ \A i \in 1..Len(calls) : calls[i].call = ChainOrder[i]
        /\ \A i \in 1..(Len(calls) - 1) : ~inp.up[ChainOrder[i]].raised
        /\ ChainRan => Len(calls) = Len(ChainOrder)
        /\ "Settings" \in classes => Len(calls) >= 1
        /\ Len(calls) >= 2 => calls[2].settings = inp.up.Settings.v
        /\ Len(calls) >= 3 =>
              /\ calls[3].data_manager = inp.up.DataManager.v
              /\ calls[3].settings = inp.up.Settings.v

\* C24 witness: a call with a config ran the whole chain
C24_Witness ==
    /\ op = "get_usage_statistics" /\ ChainRan
    /\ inp.config_params # PyNone
    /\ Len(calls) = 5 /\ calls[5].call = "get_current_data"
    /\ calls[2].settings = ASettings

----------------------------------------------------------------------------
(* The sessions of the statistics (checked under Spec) *)

\* the recent sessions upstream holds: its list, or none
UpstreamRecent ==
    IF CurrentAttr("recent_sessions").k = "list"
    THEN CurrentAttr("recent_sessions").items ELSE <<>>

\* the call ran the chain and assembled the stats without an exception
NotDegraded == op = "get_usage_statistics" /\ ChainRan /\ ~inp.caught

\* C25: when get_usage_statistics does not degrade, recent_sessions has as
\* many entries as the upstream collection, entry i being the conversion
\* of upstream session i, and current_session is set if and only if
\* upstream supplies a current session.
C25_SessionsOneToOne ==
    NotDegraded =>
        /\ Len(out.v.recent_sessions) = Len(UpstreamRecent)
        /\ \A i \in 1..Len(UpstreamRecent) :
              out.v.recent_sessions[i] =
                  convert_session_block(UpstreamRecent[i], NoTicks(clock)).v
        /\ out.v.current_session # PyNone <=> CurrentAttr("current_session") # PyNone
        /\ CurrentAttr("current_session") # PyNone =>
              out.v.current_session =
                  convert_session_block(CurrentAttr("current_session"),
                                        NoTicks(clock)).v

\* C25 witness: two different recent sessions and a current session were
\* converted
C25_Witness ==
    /\ NotDegraded
    /\ UpstreamRecent = <<OtherSession, GoodSession>>
    /\ CurrentAttr("current_session") = GoodSession
    /\ out.v.recent_sessions[1].id = <<"s2">>
    /\ out.v.recent_sessions[2].id = <<"s1">>

----------------------------------------------------------------------------
(* The partially bound wrapper (checked under Spec) *)

ChainClasses == {"Settings", "DataManager", "MonitoringOrchestrator"}

\* the flag is set although one of the three classes of the chain is not bound
PartiallyBound ==
    /\ phase = "bound" /\ is_available
    /\ ~(ChainClasses \subseteq classes)

\* a class or function is registered only with the module it comes from
RegistryInclusion ==
    /\ \A c \in classes : ClassModule[c] \in modules
    /\ \A f \in functions : FunctionModule[f] \in modules

\* C30 (as stated): in a partially bound state get_usage_statistics returns
\* the zero-valued statistics, get_session_history the empty list and
\* validate_configuration valid=false with an error; and a class or function
\* is in the registry only if its module is.
C30_PartialBindingDegradesAll ==
    /\ RegistryInclusion
    /\ PartiallyBound =>
        /\ op \in {"get_usage_statistics", "get_session_history",
                   "validate_configuration"} => ~out.raised
        /\ op = "get_usage_statistics" => out.v = EmptyStats
        /\ op = "get_session_history" => out.v = <<>>
        /\ op = "validate_configuration" =>
              ~out.v.valid /\ "error" \in DOMAIN out.v

\* C30 (amended): in a partially bound state no operation raises;
\* get_usage_statistics returns the zero-valued statistics;
\* get_session_history returns the empty list when Settings or DataManager
\* is not bound; validate_configuration returns valid=false with the error
\* 'Settings class not available' when Settings is not bound; and a class or
\* function is in the registry only if its module is.
C30_PartialBindingDegradesWhereNeeded ==
    /\ RegistryInclusion
    /\ PartiallyBound =>
        /\ op \in {"get_usage_statistics", "get_session_history",
                   "validate_configuration"} => ~out.raised
        /\ op = "get_usage_statistics" => out.v = EmptyStats
        /\ op = "get_session_history"
           /\ ~({"Settings", "DataManager"} \subseteq classes) => out.v = <<>>
        /\ op = "validate_configuration" /\ "Settings" \notin classes =>
              out.v = Invalid("Settings class not available")

\* C30 witness: modules are loaded, the flag is set, Settings is not bound
\* and a validation was answered with valid=false
C30_Witness ==
    /\ PartiallyBound /\ "Settings" \notin classes /\ modules # {}
    /\ op = "validate_configuration" /\ ~out.raised /\ ~out.v.valid

\* the other side of the amendment: only the orchestrator is not bound, and
\* the history call returned sessions
C30_HistoryWithoutOrchestrator ==
    /\ PartiallyBound /\ {"Settings", "DataManager"} \subseteq classes
    /\ op = "get_session_history" /\ ~out.raised /\ Len(out.v) > 0

----------------------------------------------------------------------------
(* Properties of the binding pass (checked under Spec) *)

\* the binding pass found a usable root and went on to load the modules
RootUsable == inp.root # NoPath /\ inp.root \in inp.valid

\* reading a class or function attribute of a loaded module raised
\* something other than AttributeError
ExtractionRaised ==
    \/ \E c \in DOMAIN ClassModule :
          ClassModule[c] \in modules /\ inp.clook[c] = "raises"
    \/ \E f \in DOMAIN FunctionModule :
          FunctionModule[f] \in modules /\ inp.flook[f] = "raises"

\* C12 (as stated): after the binding pass is_available is true if and only
\* if at least one module is in the module registry, for every combination
\* of load outcomes and of class/function extraction outcomes.
C12_AvailableIffModuleLoaded ==
    phase = "bound" => (is_available <=> modules # {})

\* C12 (amended): after the binding pass is_available is true if and only
\* if at least one module is in the registry and the class and function
\* extraction ended without an exception other than AttributeError.
C12_AvailableIffLoadedAndExtracted ==
    op = "setup_monitor" =>
        (is_available <=> (modules # {} /\ ~ExtractionRaised))

\* C12 witness: modules were loaded, extraction raised, the flag is false
C12_Witness ==
    /\ op = "setup_monitor" /\ modules # {} /\ ExtractionRaised
    /\ ~is_available

\* C13: each module of the named set is attempted, in order, whatever way
\* an earlier load failed, and the registry holds exactly the modules whose
\* load succeeded.
C13_ModulesLoadIndependently ==
    (op = "setup_monitor" /\ RootUsable) =>
        /\ Len(calls) = Len(modules_to_load)
        /\ \A i \in 1..Len(calls) :
              calls[i].call = "import_module" /\ calls[i].name = modules_to_load[i]
        /\ modules = {m \in ModuleNames : inp.load[m] = "ok"}

\* C13 witness: two loads failed in the two ways the code tells apart, and
\* a module after both is in the registry
C13_Witness ==
    /\ op = "setup_monitor" /\ RootUsable
    /\ inp.load["settings"] = "ImportError" /\ inp.load["plans"] = "Exception"
    /\ {"models", "pricing"} \subseteq modules

\* C14: inside every guarded import and every guarded settings construction
\* sys.argv is the one-element placeholder, and once the block is over,
\* by success or by failure, sys.argv is what it was before; so it is after
\* the whole binding pass.
C14_ArgvPlaceholderAndRestored ==
    /\ argv = Argv0
    /\ \A i \in DOMAIN calls :
          "argv" \in DOMAIN calls[i] =>
              Len(calls[i].argv) = 1 /\ calls[i].argv[1] = Argv0[1]

\* C14 witness: a binding pass in which an import failed and a later one
\* succeeded, each under the guard
C14_Witness ==
    /\ op = "setup_monitor" /\ Len(calls) = Len(modules_to_load)
    /\ inp.load["settings"] = "ImportError" /\ "models" \in modules
    /\ calls[2].argv = <<"uvicorn">>

\* the candidates of the search as the claim orders them
SearchOrder ==
    IF inp.configured = NoPath THEN Candidates ELSE <<inp.configured>> \o Candidates

\* C20 (as stated): the root is the first valid candidate in the order
\* configured path, relative path, fallback locations, and the layer is
\* degraded for want of a root only when no candidate is valid.
C20_RootFirstValidCandidate ==
    op = "setup_monitor" =>
        \/ \E i \in 1..Len(SearchOrder) :
              /\ inp.root = SearchOrder[i] /\ SearchOrder[i] \in inp.valid
              /\ \A j \in 1..(i - 1) : SearchOrder[j] \notin inp.valid
        \/ /\ \A i \in 1..Len(SearchOrder) : SearchOrder[i] \notin inp.valid
           /\ modules = {} /\ ~is_available

\* C20 (amended): a configured path is the root as it is, valid or not;
\* with no configured path the root is the first valid one of the relative
\* path and the fallback locations in their order, or none; the layer is
\* degraded with no import attempted when the root is none or not valid.
C20_ConfiguredPathOverridesSearch ==
    op = "setup_monitor" =>
        /\ inp.configured # NoPath => inp.root = inp.configured
        /\ inp.configured = NoPath =>
              \/ \E i \in 1..Len(Candidates) :
                    /\ inp.root = Candidates[i] /\ Candidates[i] \in inp.valid
                    /\ \A j \in 1..(i - 1) : Candidates[j] \notin inp.valid
              \/ /\ inp.root = NoPath
                 /\ \A i \in 1..Len(Candidates) : Candidates[i] \notin inp.valid
        /\ ~RootUsable => (modules = {} /\ ~is_available /\ calls = <<>>)
        /\ (RootUsable /\ \E m \in ModuleNames : inp.load[m] = "ok") => modules # {}

\* C20 witness: the configured path is not an installation, the relative
\* path is one, and the layer is degraded
C20_Witness ==
    /\ op = "setup_monitor" /\ inp.configured = "explicit"
    /\ "explicit" \notin inp.valid /\ "relative" \in inp.valid
    /\ inp.root = "explicit" /\ modules = {} /\ ~is_available

----------------------------------------------------------------------------
(* The registry after the binding pass (checked under Spec) *)

\* C15: the registry is write-once: once the binding pass is over no step
\* (get_usage_statistics, get_session_history, validate_configuration,
\* convert_session_block, get_monitor_info, or a return) changes the
\* availability flag or the sets of bound modules, classes and functions,
\* and no step starts a new binding pass.
C15_RegistryWriteOnce ==
    [][phase = "bound" =>
        /\ phase' = "bound" /\ is_available' = is_available
        /\ modules' = modules /\ classes' = classes /\ functions' = functions
        /\ (op' = "setup_monitor" => op = "setup_monitor")]_vars

\* C15 witness: a degraded wrapper holding loaded modules has served an
\* info call and reports itself unavailable
C15_Witness ==
    /\ phase = "bound" /\ op = "get_monitor_info"
    /\ modules # {} /\ ~is_available /\ ~out.v.available

----------------------------------------------------------------------------
(* Properties of get_session_history (checked under Spec) *)

\* a step of the history chain failed: a class is not bound or a call raised
HistoryFails ==
    \/ "Settings" \notin classes \/ inp.up.Settings.raised
    \/ "DataManager" \notin classes \/ inp.up.DataManager.raised
    \/ inp.up.get_recent_sessions.raised

\* the list the library returned for the history query
HistorySessions == inp.up.get_recent_sessions.v

\* C11: get_session_history never raises; it returns the empty list when
\* the layer is unavailable or when settings construction, data-source
\* construction or the history call fails; otherwise it passes hours_back
\* to the library unchanged and returns one converted SessionBlock per
\* upstream session, in upstream order.
C11_HistoryOnePerSession ==
    op = "get_session_history" =>
        /\ ~out.raised
        /\ (~is_available \/ HistoryFails) => out.v = <<>>
        /\ (is_available /\ ~HistoryFails /\ HistorySessions.k = "list") =>
            /\ calls[3] = [call |-> "get_recent_sessions",
                           hours_back |-> inp.hours_back]
            /\ Len(out.v) = Len(HistorySessions.items)
            /\ \A i \in 1..Len(out.v) : out.v[i].k = "SessionBlock"

----------------------------------------------------------------------------
(* Concurrent calls (checked under SpecConc) *)

\* C16: for every interleaving of two or more concurrent calls, once all
\* of them have returned, sys.argv, which each call saves and replaces
\* around the settings construction, equals its value before the calls.
C16_ArgvRestoredAfterConcurrentCalls ==
    (\A t \in Threads : threads[t].pc = "returned") => argv = Argv0

----------------------------------------------------------------------------
(* Properties of the reader and the converter (checked under SpecPure) *)

\* the value at the end of the dotted path of the call in progress
PathValue == WalkFrom(inp.obj, Split(inp.attr), 1)

\* the attribute named exactly inp.attr can be read from inp.obj
HasReadable ==
    /\ inp.obj.k = "obj" /\ inp.attr \in DOMAIN inp.obj.attrs
    /\ inp.obj.attrs[inp.attr].st = "val"

\* C5 (as amended): safe_getattr never raises; it returns the value of the
\* attribute whose name is exactly attr when that attribute can be read, and
\* default in every other case (obj is None, no attribute of that name, the
\* read raises); a dotted path is one name and is not walked.
C5_SafeGetattrSingleName ==
    op = "safe_getattr" =>
        /\ ~out.raised
        /\ (inp.obj = PyNone => out.v = inp.default)
        /\ (HasReadable => out.v = inp.obj.attrs[inp.attr].v)
        /\ (~HasReadable => out.v = inp.default)

\* C5 witness: every segment of the dotted path x.y exists on the object and
\* the call returns default, not the value at the end of the path.
C5_Witness ==
    /\ op = "safe_getattr" /\ Len(Split(inp.attr)) = 2
    /\ ~PathValue.raised /\ PathValue.v # inp.default
    /\ out.v = inp.default

\* C5 as stated: resolve never raises, returns default when obj is null or a
\* segment of the dotted path is missing, and returns the value at the end
\* of the path when every segment exists.
C5_ResolveWalksPath ==
    op = "safe_getattr" =>
        /\ ~out.raised
        /\ (inp.obj = PyNone => out.v = inp.default)
        /\ (PathValue.raised /\ PathValue.exc.type = "AttributeError" => out.v = inp.default)
        /\ (~PathValue.raised => out.v = PathValue.v)

\* the keys of the property map of the call in progress
MapKeys == {inp.property_map[i][1] : i \in 1..Len(inp.property_map)}

\* what the path of entry i resolves to, or null when it fails partway
Resolved(i) ==
    With(WalkFrom(inp.obj, Split(inp.property_map[i][2]), 1),
         LAMBDA r : IF r.raised THEN PyNone ELSE r.v)

\* C4: extract_properties returns a mapping whose key set is the key set of
\* the input map, each field holding what its own path resolves to, or null
\* when the path fails partway; no failure aborts the extraction.
C4_ExtractKeySetAndIsolation ==
    op = "extract_properties" =>
        /\ ~out.raised
        /\ DOMAIN out.v = MapKeys
        /\ \A i \in 1..Len(inp.property_map) : out.v[inp.property_map[i][1]] = Resolved(i)

\* C6: convert_datetime never raises, whatever the type of its input.
C6_NormalizeNeverRaises ==
    op = "convert_datetime" => ~out.raised

\* a well-formed calendar time
CivilOk(dt) ==
    /\ dt.M \in 1..12 /\ dt.D \in 1..DaysInMonth(dt.Y, dt.M)
    /\ dt.h \in 0..23 /\ dt.mi \in 0..59 /\ dt.s \in 0..59

\* strings of the inputs that are not ISO-8601 timestamps
Unparseable == {NotADate, IsoBadDay, IsoBadHour, Chars(<<>>), Chars(<<"Z">>)}

\* C7: convert_datetime applies its rules in order: None gives None; a
\* datetime is returned unchanged; an int or finite float is that many seconds
\* since the epoch, in UTC; a string is parsed as ISO-8601 with Z read as
\* UTC; every other value and every unparseable string gives None.
\* "2024-01-01T12:00:00Z" and 1704110400 give the same instant.
C7_NormalizeRules ==
    op = "convert_datetime" =>
        /\ (inp.dt = PyNone => out = Ret(PyNone))
        /\ (inp.dt.k = "datetime" => out = Ret(inp.dt))
        /\ (inp.dt.k = "int" =>
                /\ ~out.raised /\ out.v.k = "datetime" /\ CivilOk(out.v)
                /\ out.v.aware /\ out.v.off = 0 /\ ToEpoch(out.v) = inp.dt.i)
        /\ (inp.dt.k = "float" /\ inp.dt.c = "fin" =>
                /\ ~out.raised /\ out.v.k = "datetime" /\ CivilOk(out.v)
                /\ out.v.aware /\ out.v.off = 0 /\ ToEpoch(out.v) = inp.dt.i)
        /\ (inp.dt = PyInt(1704110400) =>
                out = Ret(PyDatetime(2024, 1, 1, 12, 0, 0, TRUE, 0)))
        /\ (inp.dt = IsoZ =>
                /\ out = Ret(PyDatetime(2024, 1, 1, 12, 0, 0, TRUE, 0))
                /\ DatetimeEq(out.v, convert_datetime(PyInt(1704110400)).v))
        /\ (inp.dt = IsoOffset =>
                /\ ~out.raised /\ out.v.aware /\ ToEpoch(out.v) = 1704110400)
        /\ (inp.dt = IsoNaive => out = Ret(PyDatetime(2024, 2, 29, 23, 59, 0, FALSE, 0)))
        /\ (inp.dt \in Unparseable => out = Ret(PyNone))
        /\ (inp.dt.k \in {"list", "dict", "obj"} => out = Ret(PyNone))

\* C7 witness: the string "2024-01-01T12:00:00Z" was normalized to noon UTC.
C7_Witness ==
    /\ op = "convert_datetime" /\ inp.dt = IsoZ
    /\ ~out.raised /\ out.v.k = "datetime" /\ out.v.h = 12 /\ out.v.aware

\* the upstream token_counts object of the call in progress, or None
UpstreamTokens == safe_getattr(inp.monitor_session, N("token_counts"), PyNone).v

\* the upstream counter f of the call in progress
UpstreamCounter(f) == UpstreamTokens.attrs[N(f)].v.i

CounterNames == {"input_tokens", "output_tokens", "cache_creation_tokens",
                 "cache_read_tokens"}

\* the upstream token_counts object is present with its four integer sub-fields
TokensPresent ==
    /\ UpstreamTokens.k = "obj"
    /\ \A f \in CounterNames :
        /\ N(f) \in DOMAIN UpstreamTokens.attrs
        /\ UpstreamTokens.attrs[N(f)].v.k = "int"

\* C3: convert_session_block never propagates an exception: for every
\* upstream session object it returns a SessionBlock.
C3_ConvertNeverRaises ==
    op = "convert_session_block" => ~out.raised /\ out.v.k = "SessionBlock"

\* C8: a session with start_time=1700000000, token_counts 10/5/0/0 and no
\* burn_rate converts to a block with total_tokens 15 and burn_rate null; and
\* whenever the upstream token_counts is present the returned counters equal
\* its sub-fields.
C8_TokenCountersCarried ==
    op = "convert_session_block" /\ inp.monitor_session.k = "obj" /\ TokensPresent =>
        /\ ~out.raised
        /\ \A f \in CounterNames : out.v.token_counts[f] = UpstreamCounter(f)
        /\ (/\ safe_getattr(inp.monitor_session, N("start_time"), PyNone).v = PyInt(1700000000)
            /\ UpstreamTokens = TokenObj(PyInt(10), PyInt(5), PyInt(0), PyInt(0))
            /\ N("burn_rate") \notin DOMAIN inp.monitor_session.attrs
            => total_tokens(out.v.token_counts) = 15 /\ out.v.burn_rate = PyNone)

\* C9: convert_session_block(None) returns a SessionBlock with id 'unknown',
\* start and end timestamps read from the clock during the call, zero token
\* counts, no burn rate, no models and no per-model statistics.
C9_AbsentSessionPlaceholder ==
    op = "convert_session_block" /\ inp.monitor_session = PyNone =>
        /\ ~out.raised /\ out.v.k = "SessionBlock"
        /\ out.v.id = <<"unknown">>
        /\ out.v.start_time.k = "datetime" /\ out.v.end_time.k = "datetime"
        /\ ToEpoch(out.v.start_time) \in ClockBase..clock
        /\ ToEpoch(out.v.end_time) \in ToEpoch(out.v.start_time)..clock
        /\ \A f \in CounterNames : out.v.token_counts[f] = 0
        /\ total_tokens(out.v.token_counts) = 0
        /\ out.v.burn_rate = PyNone
        /\ out.v.models = <<>>
        /\ DOMAIN out.v.per_model_stats = {}

\* C9 witness: None was converted while the clock advanced, and the end
\* timestamp is the later reading.
C9_Witness ==
    /\ op = "convert_session_block" /\ inp.monitor_session = PyNone
    /\ ~out.raised /\ out.v.id = <<"unknown">>
    /\ ToEpoch(out.v.end_time) = ClockBase + 1
    /\ ToEpoch(out.v.start_time) = ClockBase

\* the fields of a TokenCounts: the type tag and the four counters
TokenCountsFields == {"k"} \cup CounterNames

\* the counters of a TokenCounts added up
CounterSum(tc) ==
    tc.input_tokens + tc.output_tokens + tc.cache_creation_tokens
    + tc.cache_read_tokens

\* C18: for every constructed TokenCounts, the zero-valued default and the
\* one inside every SessionBlock convert_session_block returns included,
\* total_tokens is the sum of the four counters; the total is computed from
\* the counters on each read and not stored in the instance.
C18_TotalIsSumOfCounters ==
    /\ total_tokens(TokenCountsDefault) = 0
    /\ (op = "TokenCounts" /\ ~out.raised) =>
          /\ total_tokens(out.v) = CounterSum(out.v)
          /\ total_tokens(out.v) = inp.a.i + inp.b.i + inp.c.i + inp.d.i
          /\ DOMAIN out.v = TokenCountsFields
    /\ (op = "convert_session_block" /\ ~out.raised) =>
          /\ session_total_tokens(out.v) = CounterSum(out.v.token_counts)
          /\ DOMAIN out.v.token_counts = TokenCountsFields
          /\ "total_tokens" \notin DOMAIN out.v

\* C18 witness: a TokenCounts built with non-zero cache counters
C18_Witness ==
    /\ op = "TokenCounts" /\ ~out.raised
    /\ inp.c = PyInt(3) /\ inp.d = PyInt(4) /\ inp.a = PyInt(4)
    /\ total_tokens(out.v) = 11 + inp.b.i

\* the try block of convert_session_block raised for a present session
ConversionFailed ==
    /\ op = "convert_session_block" /\ Truthy(inp.monitor_session)
    /\ ConvertTry(inp.monitor_session, inp.rd).raised

\* the fields the except branch leaves at their defaults, and its timestamps
FallbackDefaults ==
    /\ out.v.k = "SessionBlock"
    /\ out.v.start_time.k = "datetime" /\ out.v.end_time.k = "datetime"
    /\ ToEpoch(out.v.start_time) \in ClockBase..clock
    /\ ToEpoch(out.v.end_time) \in ToEpoch(out.v.start_time)..clock
    /\ \A f \in CounterNames : out.v.token_counts[f] = 0
    /\ out.v.burn_rate = PyNone

\* str() of the upstream id when the session has one that can be read,
\* 'error' otherwise
ExpectedFallbackId ==
    IF /\ inp.monitor_session.k = "obj"
       /\ N("id") \in DOMAIN inp.monitor_session.attrs
       /\ inp.monitor_session.attrs[N("id")].st = "val"
    THEN str(inp.monitor_session.attrs[N("id")].v).s
    ELSE <<"error">>

\* C22 (as stated): when the conversion of a present session fails
\* internally, the returned SessionBlock is the placeholder of the absent
\* session: identifier 'unknown', both timestamps now, zero token counts and
\* no burn rate.
C22_FailureGivesAbsentPlaceholder ==
    (ConversionFailed /\ ~out.raised) =>
        out.v.id = <<"unknown">> /\ FallbackDefaults

\* C22 (amended): the returned SessionBlock has both timestamps now, zero
\* token counts and no burn rate, and its identifier is the string form of
\* the upstream id when the session has a readable one, 'error' otherwise.
C22_FailureGivesFallbackWithOwnId ==
    (ConversionFailed /\ ~out.raised) =>
        out.v.id = ExpectedFallbackId /\ FallbackDefaults

\* C22 witness: a session with id 's1' failed to convert and came back as
\* the fallback carrying 's1'
C22_Witness ==
    /\ ConversionFailed /\ ~out.raised
    /\ out.v.id = <<"s1">> /\ FallbackDefaults
    /\ N("token_counts") \in DOMAIN inp.monitor_session.attrs

\* a present session was converted by the try block
Converted ==
    /\ op = "convert_session_block" /\ inp.monitor_session.k = "obj"
    /\ ~ConvertTry(inp.monitor_session, inp.rd).raised /\ ~out.raised

\* the session holds an object under name whose sub-field f is missing or
\* raises when read
SubfieldUnreadable(name, f) ==
    /\ N(name) \in DOMAIN inp.monitor_session.attrs
    /\ inp.monitor_session.attrs[N(name)].st = "val"
    /\ inp.monitor_session.attrs[N(name)].v.k = "obj"
    /\ \/ N(f) \notin DOMAIN inp.monitor_session.attrs[N(name)].v.attrs
       \/ inp.monitor_session.attrs[N(name)].v.attrs[N(f)].st = "raise"

BurnUnreadableAll ==
    /\ SubfieldUnreadable("burn_rate", "tokens_per_minute")
    /\ SubfieldUnreadable("burn_rate", "cost_per_hour")

\* the fields of the session that do not depend on burn_rate or
\* token_counts are converted from upstream
OthersConverted ==
    /\ out.v.id = str(inp.monitor_session.attrs[N("id")].v).s
    /\ N("start_time") \in DOMAIN inp.monitor_session.attrs
       /\ Normalizes(inp.monitor_session.attrs[N("start_time")].v)
       => out.v.start_time =
              convert_datetime(inp.monitor_session.attrs[N("start_time")].v).v

\* an unreadable counter of a present token_counts is zero in the result
UnreadableCountersZero ==
    \A f \in CounterNames :
        SubfieldUnreadable("token_counts", f) => out.v.token_counts[f] = 0

\* C26 (as stated): a present burn_rate whose sub-fields are unreadable is
\* dropped, the result's burn_rate being null, while the other fields are
\* still converted; a token_counts in the same situation gives counters
\* defaulted to zero.
C26_UnreadableBurnRateDropped ==
    Converted =>
        /\ BurnUnreadableAll => (out.v.burn_rate = PyNone /\ OthersConverted)
        /\ UnreadableCountersZero

\* C26 (amended): a present burn_rate whose sub-fields are unreadable is
\* kept with both rates defaulted to zero, the other fields being
\* converted; an unreadable counter of token_counts is zero likewise.
C26_UnreadableBurnRateZero ==
    Converted =>
        /\ BurnUnreadableAll =>
              /\ out.v.burn_rate =
                    [k |-> "BurnRate", tokens_per_minute |-> Zero, cost_per_hour |-> Zero]
              /\ OthersConverted
        /\ UnreadableCountersZero

\* C26 witness: a session with id 's1', a start time, a token_counts that
\* lacks three counters and a burn_rate whose sub-fields raise
C26_Witness ==
    /\ Converted /\ BurnUnreadableAll
    /\ SubfieldUnreadable("token_counts", "cache_read_tokens")
    /\ out.v.id = <<"s1">> /\ out.v.burn_rate # PyNone
    /\ out.v.token_counts.input_tokens = 10
    /\ N("start_time") \in DOMAIN inp.monitor_session.attrs

\* the session in progress has no attribute of this name
Lacks(name) == N(name) \notin DOMAIN inp.monitor_session.attrs

\* the session in progress supplies this attribute with a readable value
Supplies(name) ==
    /\ N(name) \in DOMAIN inp.monitor_session.attrs
    /\ inp.monitor_session.attrs[N(name)].st = "val"

BasicNames == {"id", "is_active", "cost_usd", "sent_messages_count"}

\* C28: for a present upstream session that lacks one or more of is_active,
\* cost_usd, sent_messages_count or id, the returned SessionBlock has the
\* default of each missing field (False, 0.0, 0, 'unknown') and keeps the
\* upstream token counters and start time the session supplies.
C28_MissingBasicFieldsDefault ==
    (/\ op = "convert_session_block" /\ inp.monitor_session.k = "obj"
     /\ \E f \in BasicNames : Lacks(f)) =>
        /\ ~out.raised /\ out.v.k = "SessionBlock"
        /\ Lacks("id") => out.v.id = <<"unknown">>
        /\ Lacks("is_active") => out.v.is_active = FALSE
        /\ Lacks("cost_usd") => out.v.cost_usd = Zero
        /\ Lacks("sent_messages_count") => out.v.sent_messages_count = 0
        /\ TokensPresent =>
              \A f \in CounterNames : out.v.token_counts[f] = UpstreamCounter(f)
        /\ Supplies("start_time") /\ Normalizes(inp.monitor_session.attrs[N("start_time")].v)
              => out.v.start_time =
                     convert_datetime(inp.monitor_session.attrs[N("start_time")].v).v

----------------------------------------------------------------------------
(* Properties of the HTTP service (checked under SpecHttp) *)

\* C21: a POST /usage/config with a schema-valid body answers 200, echoes
\* the posted plan, custom_limit_tokens and view, and leaves the posted
\* configuration in the store, whether the monitor is available or not.
C21_PostValidBodySucceeds ==
    op = "update_usage_config" =>
        /\ out.status = 200
        /\ \A x \in {"plan", "custom_limit_tokens", "view"} :
              out.body[x] = inp.config_data[x] /\ config_store[x] = inp.config_data[x]

\* the configuration handed to the monitor by the request in progress
Handed == calls[1].config_params

\* C27: for a GET /usage/stats that is answered, every query parameter the
\* request supplies overrides the stored field in the configuration handed
\* to the monitor, and the fields not supplied keep their stored values.
C27_QueryOverridesStored ==
    (op = "get_usage_stats" /\ out.status = 200) =>
        /\ \A x \in DOMAIN inp.q :
              Handed[x] = IF inp.q[x] # PyNone THEN inp.q[x] ELSE config_store[x]
        /\ \A x \in DOMAIN Handed \ DOMAIN inp.q : Handed[x] = config_store[x]

\* C29: the configuration GET /usage/config returns changes only in a POST
\* /usage/config whose validation result is valid, which stores the posted
\* configuration; a rejected POST leaves the store exactly as it was.
C29_StoreChangesOnlyByValidPost ==
    [][/\ get_current_config(config_store') # get_current_config(config_store) =>
            /\ op' = "update_usage_config" /\ inp'.validation_result.valid
            /\ out'.status = 200
            /\ config_store' = update_config_store(inp'.config_data, clock)
       /\ (op' = "update_usage_config" /\ out'.status # 200) =>
            /\ ~inp'.validation_result.valid
            /\ config_store' = config_store]_vars

\* C29 witness: a configuration was stored, and a later POST of another
\* plan was rejected and left it in place
C29_Witness ==
    /\ op = "update_usage_config" /\ out.status = 422
    /\ config_store # PyNone /\ config_store.plan = S("pro")
    /\ inp.config_data.plan = S("max5")

====
